---- MODULE Spec2Model ----
(***************************************************************************)
(* Model of the MR60BHA2 sensor firmware (reachy-sensor.ino): the binary   *)
(* framing layer (CRC16 + COBS), the host command dispatcher, and the      *)
(* presence / vitals state engine run by loop().                           *)
(*                                                                         *)
(* Bytes are the integers 0..255 and byte buffers are sequences (index 1   *)
(* is the C index 0).  A float is an integer (whole cm, bpm, cm/s, m) or   *)
(* the value NaN, which stands for a non-finite reading.                   *)
(***************************************************************************)
EXTENDS Integers, Sequences, FiniteSets, TLC

VARIABLES
  booted,              \* setup() has run
  clock,               \* millis() as last read
  t0,
  txSeq,
  lastDist, lastBR, lastHR,
  lastPresenceMs, absentStreak, vitalsStreak, humanStableStreak,
  lastSingleTargetMs, seenSingleTarget,
  lastTargetsEmitMs, lastBioEmitMs, lastStateEmitMs,
  hostHeadMoving, forcedFocusCluster,
  TARGETS_MS, BIO_MS,
  prevS, prevP, prevHM, prevN,
  rxEncodedBuf, rxOverflow,
  out,                 \* frames written to Serial by the last step, in order
  disp,                \* what the decoder did at each delimiter of the last step:
                       \* a packet handed to applyBinaryCommand, or a rejection
  hostTx,              \* what the host put on the serial link for the last step
  radar,               \* the radar frame the last loop() processed (NoRadar on a timeout)
  frame,               \* the values loop() computed for that radar frame
  hist                 \* observations over the run so far (see Observed)

vars == <<booted, clock, t0, txSeq, lastDist, lastBR, lastHR, lastPresenceMs,
          absentStreak, vitalsStreak, humanStableStreak, lastSingleTargetMs,
          seenSingleTarget, lastTargetsEmitMs, lastBioEmitMs, lastStateEmitMs,
          hostHeadMoving, forcedFocusCluster, TARGETS_MS, BIO_MS,
          prevS, prevP, prevHM, prevN, rxEncodedBuf, rxOverflow,
          out, disp, hostTx, radar, frame, hist>>

(***************************************************************************)
(* Protocol constants                                                      *)
(***************************************************************************)
PROTO_VERSION == 1

CMD_SET_HM == 1
CMD_SET_FOCUS == 2
CMD_SET_BIO_MS == 3
CMD_SET_TARGETS_MS == 4
CMD_PING == 5

EVT_ACK == 129
EVT_ERR == 130
EVT_PONG == 131
EVT_HELLO == 144
EVT_STATE == 145
EVT_TARGETS == 146
EVT_BIO == 147

ACK_OK == 0
ACK_CLAMPED == 1

ERR_UNKNOWN_CMD == 1
ERR_BAD_LEN == 2
ERR_BAD_VALUE == 3
ERR_CRC_FAIL == 4
ERR_UNSUPPORTED_VERSION == 5

FLAG_FOCUS_VALID == 1
FLAG_TARGETS_TRUNCATED == 2
MAX_TARGETS_WIRE == 8

\* enum class PersonState
NO_TARGET == 0
MULTI_TARGET == 1
PRESENT_FAR == 2
MOVING == 3
STILL_NEAR == 4
RESTING_VITALS == 5

\* enum class PoseGuess
UNKNOWN == 0
SITTING == 1
STANDING == 2

\* Tuning
NEAR_MIN_DIST_CM == 35
NEAR_MAX_DIST_CM == 150
MOVING_CM_S == 8
BR_MIN == 4
BR_MAX == 30
HR_MIN == 35
HR_MAX == 200
ABSENT_HOLD_MS == 1200
ABSENT_CONFIRM == 8
VITALS_CONFIRM == 5
HUMAN_STABLE_FALLBACK_CONFIRM == 3
TARGET_LOSS_GRACE_MS == 1200
SIT_STAND_THRESHOLD_CM == 55
TARGETS_MS_DEFAULT == 250
BIO_MS_DEFAULT == 1000
RANGE_STEP == 1
STATE_REFRESH_MS == 1000

\* Buffer sizes
RxEncodedCap == 384
RxDecodedCap == 384
TxPayloadCap == 384
TxEncodedCap == 640

\* Integer widths
U8 == 256
U16 == 65536
\* millis() and the values derived from it are uint32_t in the source.  The
\* model runs far below 2^31 ms, where now - last never wraps, so they are
\* plain naturals here.

\* A non-finite float (NAN in the source).
NaN == -999999
isfinite(v) == v # NaN
isnan(v) == v = NaN

(***************************************************************************)
(* Byte helpers                                                            *)
(***************************************************************************)
RECURSIVE XorBits(_, _)
XorBits(a, b) ==
  IF a = 0 THEN b
  ELSE IF b = 0 THEN a
  ELSE (((a % 2) + (b % 2)) % 2) + 2 * XorBits(a \div 2, b \div 2)

\* The C operator ^ on 16-bit values, looked up four bits at a time.
XorNib == [a \in 0..15 |-> [b \in 0..15 |-> XorBits(a, b)]]
Xor8(a, b) == XorNib[a \div 16][b \div 16] * 16 + XorNib[a % 16][b % 16]
Xor(a, b) == Xor8(a \div 256, b \div 256) * 256 + Xor8(a % 256, b % 256)

\* One round of the inner loop of crc16CcittFalse.
crcBit(crc) ==
  IF crc >= 32768 THEN Xor((crc * 2) % U16, 4129) ELSE (crc * 2) % U16

\* One round of the outer loop: crc ^= data[i] << 8, then eight bit rounds.
crcByte(crc, byte) ==
  crcBit(crcBit(crcBit(crcBit(crcBit(crcBit(crcBit(crcBit(Xor(crc, byte * 256)))))))))

\* The outer loop over data[lo..hi], left to right.  The range is split in
\* halves (and crc is looked at first) only to keep the evaluation shallow.
RECURSIVE crcLoop(_, _, _, _)
crcLoop(data, lo, hi, crc) ==
  IF crc < 0 \/ lo > hi THEN crc
  ELSE IF lo = hi THEN crcByte(crc, data[lo])
  ELSE LET mid == (lo + hi) \div 2
       IN  crcLoop(data, mid + 1, hi, crcLoop(data, lo, mid, crc))

crc16CcittFalse(data, len) == crcLoop(data, 1, len, 65535)

U8Bytes(v) == <<v % U8>>
U16LE(v) == <<v % U8, (v \div U8) % U8>>
I16LE(v) == U16LE(v % U16)
\* The four bytes of a 32-bit value, two's complement for a negative one.
U32LE(v) == <<v % U8, (v \div U8) % U8, (v \div U16) % U8, (v \div (U16 * U8)) % U8>>
I32LE(v) == U32LE(v)

\* A reader that takes the high byte first.
readU16BE(buf, at) == buf[at] * U8 + buf[at + 1]

readU16LE(buf, at) == buf[at] + buf[at + 1] * U8
readI16LE(buf, at) ==
  LET u == readU16LE(buf, at) IN IF u >= 32768 THEN u - U16 ELSE u
Min(a, b) == IF a < b THEN a ELSE b
Max(a, b) == IF a > b THEN a ELSE b
Abs(v) == IF v < 0 THEN 0 - v ELSE v

\* Every scale of the source is 1 or more, so a value beyond the range of the
\* field saturates whatever the scale; its product is not formed.
toI16Scaled(value, scale) ==
  IF ~isfinite(value) THEN 0
  ELSE IF value > 32767 THEN 32767
  ELSE IF value < -32768 THEN -32768
  ELSE Max(-32768, Min(32767, value * scale))

toU16ScaledOrNull(value, scale) ==
  IF ~isfinite(value) THEN 65535
  ELSE IF value > 65534 THEN 65534
  ELSE Min(65534, Max(0, value * scale))

(***************************************************************************)
(* COBS                                                                    *)
(***************************************************************************)
\* The state of cobsEncode's loop: the output written so far (writeIdx is its
\* length), the position of the pending code byte, the code, and whether the
\* function has returned 0.
\* An encoder step that copies a zero byte like any other byte.
cobsEncodeByteNoStuff(e, byte, outputCap) ==
  IF e.failed THEN e
  ELSE IF Len(e.output) >= outputCap THEN [e EXCEPT !.failed = TRUE]
  ELSE IF e.code + 1 = 255 THEN
    IF e.codeIdx >= outputCap \/ Len(e.output) + 1 >= outputCap
    THEN [e EXCEPT !.failed = TRUE]
    ELSE [output |-> Append(Append([e.output EXCEPT ![e.codeIdx + 1] = 255], byte), 0),
          codeIdx |-> Len(e.output) + 1, code |-> 1, failed |-> FALSE]
  ELSE [e EXCEPT !.output = Append(e.output, byte), !.code = e.code + 1]

cobsEncodeByte(e, byte, outputCap) ==
  IF e.failed THEN e
  ELSE IF byte = 0 THEN
    IF e.codeIdx >= outputCap \/ Len(e.output) >= outputCap
    THEN [e EXCEPT !.failed = TRUE]
    ELSE [output |-> Append([e.output EXCEPT ![e.codeIdx + 1] = e.code], 0),
          codeIdx |-> Len(e.output), code |-> 1, failed |-> FALSE]
  ELSE IF Len(e.output) >= outputCap THEN [e EXCEPT !.failed = TRUE]
  ELSE IF e.code + 1 = 255 THEN
    IF e.codeIdx >= outputCap \/ Len(e.output) + 1 >= outputCap
    THEN [e EXCEPT !.failed = TRUE]
    ELSE [output |-> Append(Append([e.output EXCEPT ![e.codeIdx + 1] = 255], byte), 0),
          codeIdx |-> Len(e.output) + 1, code |-> 1, failed |-> FALSE]
  ELSE [e EXCEPT !.output = Append(e.output, byte), !.code = e.code + 1]

RECURSIVE cobsEncodeLoop(_, _, _, _, _)
cobsEncodeLoop(e, input, lo, hi, outputCap) ==
  IF e.failed \/ lo > hi THEN e
  ELSE IF lo = hi THEN cobsEncodeByte(e, input[lo], outputCap)
  ELSE LET mid == (lo + hi) \div 2
       IN  cobsEncodeLoop(cobsEncodeLoop(e, input, lo, mid, outputCap),
                          input, mid + 1, hi, outputCap)

\* After the loop: the last code byte is stored and writeIdx returned.
cobsEncodeEnd(e, outputCap) ==
  IF e.failed \/ e.codeIdx >= outputCap THEN <<>>
  ELSE [e.output EXCEPT ![e.codeIdx + 1] = e.code]

\* The bytes cobsEncode leaves in output[0..return value); <<>> when it returns 0.
cobsEncode(input, inputLen, outputCap) ==
  IF outputCap = 0 THEN <<>>
  ELSE cobsEncodeEnd(cobsEncodeLoop([output |-> <<0>>, codeIdx |-> 0, code |-> 1,
                                     failed |-> FALSE], input, 1, inputLen, outputCap),
                     outputCap)

\* One round of cobsDecode's outer loop: a code byte and the block it announces.
\* d.readIdx is the C readIdx (bytes consumed so far).
cobsDecodeBlock(d, input, inputLen, outputCap) ==
  LET code == input[d.readIdx + 1]
      next == d.readIdx + 1 + code - 1
      copiedLen == Len(d.output) + (next - (d.readIdx + 1))
  IN  IF code = 0 \/ next > inputLen THEN [d EXCEPT !.ok = FALSE]
      ELSE IF copiedLen > outputCap THEN [d EXCEPT !.ok = FALSE]
      ELSE IF code < 255 /\ next < inputLen THEN
             IF copiedLen >= outputCap THEN [d EXCEPT !.ok = FALSE]
             ELSE [readIdx |-> next, ok |-> TRUE,
                   output |-> Append(d.output \o SubSeq(input, d.readIdx + 2, next), 0)]
      ELSE [readIdx |-> next, ok |-> TRUE,
            output |-> d.output \o SubSeq(input, d.readIdx + 2, next)]

\* Up to n rounds of the outer loop (it ends when readIdx reaches inputLen or
\* the function returns false); split in halves to keep the evaluation shallow.
RECURSIVE cobsDecodeLoop(_, _, _, _, _)
cobsDecodeLoop(d, input, inputLen, outputCap, n) ==
  IF ~d.ok \/ d.readIdx >= inputLen \/ n = 0 THEN d
  ELSE IF n = 1 THEN cobsDecodeBlock(d, input, inputLen, outputCap)
  ELSE cobsDecodeLoop(cobsDecodeLoop(d, input, inputLen, outputCap, n \div 2),
                      input, inputLen, outputCap, n - (n \div 2))

\* [ok, output]: cobsDecode's return value and the bytes it wrote.
cobsDecode(input, inputLen, outputCap) ==
  IF inputLen = 0 THEN [ok |-> FALSE, output |-> <<>>]
  ELSE cobsDecodeLoop([readIdx |-> 0, output |-> <<>>, ok |-> TRUE],
                      input, inputLen, outputCap, inputLen)

(***************************************************************************)
(* Outbound frames                                                         *)
(*                                                                         *)
(* dev is the device state a handler reads and writes: the globals named   *)
(* in the source, plus out / disp, the log of what the step did.  A frame  *)
(* written to Serial is recorded as [msgType, seq, payload]; the bytes on  *)
(* the wire are wireBytes of it.                                           *)
(***************************************************************************)
\* The packet sendFrame assembles in txPacketBuf: header, payload, CRC.
appendCrc(body) == body \o U16LE(crc16CcittFalse(body, Len(body)))

framePacket(msgType, seq, payload) ==
  appendCrc(<<PROTO_VERSION, msgType>> \o U16LE(seq) \o U16LE(Len(payload)) \o payload)

\* What the two Serial.write calls of sendFrame put on the wire for a frame
\* (<<>> when cobsEncode returns 0 and nothing is written).
terminated(enc) == IF enc = <<>> THEN <<>> ELSE enc \o <<0>>

stuffed(pkt) == terminated(cobsEncode(pkt, Len(pkt), TxEncodedCap))

wireBytes(f) == stuffed(framePacket(f.msgType, f.seq, f.payload))

\* The largest index cobsEncode can reach for an input of n bytes: one code
\* byte, the bytes, one more code byte per 254 bytes.  It returns 0 only when
\* an index reaches outputCap.
cobsEncodeMaxLen(n) == n + (n \div 254) + 2

\* A sendFrame whose txSeq is not cut to 16 bits.
sendFrameNoWrap(dev, msgType, payload) ==
  IF Len(payload) > TxPayloadCap THEN dev
  ELSE [dev EXCEPT !.txSeq = dev.txSeq + 1,
                   !.out = Append(dev.out, [msgType |-> msgType, seq |-> dev.txSeq,
                                            payload |-> payload])]

sendFrame(dev, msgType, payload) ==
  IF Len(payload) > TxPayloadCap THEN dev
  ELSE IF cobsEncodeMaxLen(6 + Len(payload) + 2) > TxEncodedCap
       THEN [dev EXCEPT !.txSeq = (dev.txSeq + 1) % U16]
       ELSE [dev EXCEPT !.txSeq = (dev.txSeq + 1) % U16,
                        !.out = Append(dev.out, [msgType |-> msgType, seq |-> dev.txSeq,
                                                 payload |-> payload])]

\* An acknowledgement that also returns the focus to auto.
emitAckAutoFocus(dev, cmdId, statusCode, value) ==
  sendFrame([dev EXCEPT !.forcedFocusCluster = IF cmdId = CMD_SET_FOCUS THEN @ ELSE -1],
            EVT_ACK, U8Bytes(cmdId) \o U8Bytes(statusCode) \o I32LE(value))

emitAck(dev, cmdId, statusCode, value) ==
  sendFrame(dev, EVT_ACK, U8Bytes(cmdId) \o U8Bytes(statusCode) \o I32LE(value))

\* An error report that also clears the head-moving flag.
emitErrClearHm(dev, cmdId, errCode) ==
  sendFrame([dev EXCEPT !.hostHeadMoving = FALSE], EVT_ERR, U8Bytes(cmdId) \o U8Bytes(errCode))

emitErr(dev, cmdId, errCode) ==
  sendFrame(dev, EVT_ERR, U8Bytes(cmdId) \o U8Bytes(errCode))

\* An answer to PING that announces the protocol again.
emitPongAsHello(dev, t_ms) == sendFrame(dev, EVT_HELLO, U8Bytes(PROTO_VERSION) \o U16LE(0))

emitPong(dev, t_ms) == sendFrame(dev, EVT_PONG, U32LE(t_ms))

emitHello(dev) == sendFrame(dev, EVT_HELLO, U8Bytes(PROTO_VERSION) \o U16LE(0))

emitState(dev, t_ms, s, p, headMoving, human, nTargets, dist_cm, dist_ok) ==
  sendFrame(dev, EVT_STATE,
            U32LE(t_ms) \o U8Bytes(s) \o U8Bytes(p)
            \o U8Bytes(IF headMoving THEN 1 ELSE 0)
            \o U8Bytes(IF human THEN 1 ELSE 0)
            \o U8Bytes(Max(0, Min(255, nTargets)))
            \o U8Bytes(IF dist_ok THEN 1 ELSE 0)
            \o U16LE(toU16ScaledOrNull(dist_cm, 10)))

\* An EVT_BIO that carries the breath and heart values whatever their flags.
emitBioAlways(dev, t_ms, allowed, valid, br, br_ok, hr, hr_ok) ==
  sendFrame(dev, EVT_BIO,
            U32LE(t_ms)
            \o U8Bytes(IF allowed THEN 1 ELSE 0)
            \o U8Bytes(IF valid THEN 1 ELSE 0)
            \o U8Bytes(IF br_ok THEN 1 ELSE 0)
            \o U8Bytes(IF hr_ok THEN 1 ELSE 0)
            \o U16LE(toU16ScaledOrNull(br, 100)) \o U16LE(toU16ScaledOrNull(hr, 100)))

emitBio(dev, t_ms, allowed, valid, br, br_ok, hr, hr_ok) ==
  LET brWire == IF br_ok THEN toU16ScaledOrNull(br, 100) ELSE 65535
      hrWire == IF hr_ok THEN toU16ScaledOrNull(hr, 100) ELSE 65535
  IN  sendFrame(dev, EVT_BIO,
                U32LE(t_ms)
                \o U8Bytes(IF allowed THEN 1 ELSE 0)
                \o U8Bytes(IF valid THEN 1 ELSE 0)
                \o U8Bytes(IF br_ok THEN 1 ELSE 0)
                \o U8Bytes(IF hr_ok THEN 1 ELSE 0)
                \o U16LE(brWire) \o U16LE(hrWire))

(***************************************************************************)
(* Targets and focus picking                                               *)
(*                                                                         *)
(* A radar target is [cluster_index, x_point, y_point, dop_index].  The    *)
(* targets of the model lie on an axis (x_point = 0 or y_point = 0), where *)
(* sqrtf and atan2f have the whole values below.                           *)
(***************************************************************************)
targetRange(t) ==
  IF ~isfinite(t.x_point) \/ ~isfinite(t.y_point) THEN NaN
  ELSE IF t.x_point = 0 THEN Abs(t.y_point)
  ELSE Abs(t.x_point)

targetBearing(t) ==
  IF ~isfinite(t.x_point) \/ ~isfinite(t.y_point) THEN NaN
  ELSE IF t.x_point = 0 THEN (IF t.y_point < 0 THEN 180 ELSE 0)
  ELSE IF t.x_point > 0 THEN 90 ELSE -90

targetSpeed(t) == IF isfinite(t.dop_index) THEN t.dop_index * RANGE_STEP ELSE NaN

NoFocus ==
  [valid |-> FALSE, index |-> -1, cluster |-> -1, x_m |-> NaN, y_m |-> NaN,
   r_m |-> NaN, bearing_deg |-> NaN, speed_cm_s |-> NaN]

focusOf(targets, i) ==
  [valid |-> TRUE, index |-> i - 1, cluster |-> targets[i].cluster_index,
   x_m |-> targets[i].x_point, y_m |-> targets[i].y_point,
   r_m |-> targetRange(targets[i]), bearing_deg |-> targetBearing(targets[i]),
   speed_cm_s |-> targetSpeed(targets[i])]

\* best_r starts at 1e9f; pc.best_r is NaN-free.
RECURSIVE pickClosestLoop(_, _, _)
pickClosestLoop(targets, i, pc) ==
  IF i > Len(targets) THEN pc.best
  ELSE LET r == targetRange(targets[i])
       IN  IF ~isfinite(r) THEN pickClosestLoop(targets, i + 1, pc)
           ELSE IF r < pc.best_r
                THEN pickClosestLoop(targets, i + 1,
                                     [best |-> focusOf(targets, i), best_r |-> r])
                ELSE pickClosestLoop(targets, i + 1, pc)

pickClosestTarget(targets) ==
  pickClosestLoop(targets, 1, [best |-> NoFocus, best_r |-> 1000000000])

RECURSIVE pickForcedLoop(_, _, _)
pickForcedLoop(targets, cluster, i) ==
  IF i > Len(targets) THEN NoFocus
  ELSE IF targets[i].cluster_index # cluster THEN pickForcedLoop(targets, cluster, i + 1)
  ELSE focusOf(targets, i)

\* A forced pick that returns the last target of the cluster.
RECURSIVE pickForcedLast(_, _)
pickForcedLast(targets, cluster) ==
  IF cluster < 0 \/ Len(targets) = 0 THEN NoFocus
  ELSE IF targets[Len(targets)].cluster_index = cluster
       THEN focusOf(targets, Len(targets))
       ELSE LET head == pickForcedLast(SubSeq(targets, 1, Len(targets) - 1), cluster)
            IN  head

pickForcedCluster(targets, cluster) ==
  IF cluster < 0 THEN NoFocus ELSE pickForcedLoop(targets, cluster, 1)

RECURSIVE targetEntries(_, _, _)
targetEntries(targets, i, nWire) ==
  IF i > nWire THEN <<>>
  ELSE I16LE(targets[i].cluster_index)
       \o I16LE(toI16Scaled(targets[i].x_point, 1000))
       \o I16LE(toI16Scaled(targets[i].y_point, 1000))
       \o U16LE(toU16ScaledOrNull(targetRange(targets[i]), 1000))
       \o I16LE(toI16Scaled(targetBearing(targets[i]), 100))
       \o I16LE(toI16Scaled(targetSpeed(targets[i]), 10))
       \o targetEntries(targets, i + 1, nWire)

emitTargets(dev, t_ms, targets, focus) ==
  LET nTargets == Len(targets)
      nWire == Min(nTargets, MAX_TARGETS_WIRE)
      flags == (IF focus.valid THEN FLAG_FOCUS_VALID ELSE 0)
               + (IF nTargets > MAX_TARGETS_WIRE THEN FLAG_TARGETS_TRUNCATED ELSE 0)
  IN  sendFrame(dev, EVT_TARGETS,
                U32LE(t_ms) \o I16LE(dev.forcedFocusCluster)
                \o I16LE(IF focus.valid THEN focus.cluster ELSE -1)
                \o I16LE(IF focus.valid THEN toI16Scaled(focus.x_m, 1000) ELSE 0)
                \o I16LE(IF focus.valid THEN toI16Scaled(focus.y_m, 1000) ELSE 0)
                \o U16LE(IF focus.valid THEN toU16ScaledOrNull(focus.r_m, 1000) ELSE 0)
                \o I16LE(IF focus.valid THEN toI16Scaled(focus.bearing_deg, 100) ELSE 0)
                \o I16LE(IF focus.valid THEN toI16Scaled(focus.speed_cm_s, 10) ELSE 0)
                \o U8Bytes(flags) \o U8Bytes(nWire)
                \o targetEntries(targets, 1, nWire))

(***************************************************************************)
(* Host command processing                                                 *)
(***************************************************************************)
\* A period that is applied as requested.
clampPeriodNone(req) == req

\* applied: the requested period, raised to 50 ms.
clampPeriod(req) == IF req < 50 THEN 50 ELSE req

\* A status that never reports a clamp.
clampStatusOk(applied, req) == ACK_OK

\* status: CLAMPED when the applied period is not the requested one.
clampStatus(applied, req) == IF applied = req THEN ACK_OK ELSE ACK_CLAMPED

\* ms is millis() as read while the command is processed.
applyBinaryCommand(dev0, msgType, payload, payloadLen, ms) ==
  LET dev == [dev0 EXCEPT !.disp = Append(dev0.disp, [kind |-> "cmd", msgType |-> msgType,
                                                      payload |-> payload])]
  IN  IF msgType = CMD_SET_HM THEN
        IF payloadLen # 1 THEN emitErr(dev, msgType, ERR_BAD_LEN)
        ELSE IF payload[1] # 0 /\ payload[1] # 1 THEN emitErr(dev, msgType, ERR_BAD_VALUE)
        ELSE emitAck([dev EXCEPT !.hostHeadMoving = (payload[1] = 1)], msgType, ACK_OK,
                     IF payload[1] = 1 THEN 1 ELSE 0)
      ELSE IF msgType = CMD_SET_FOCUS THEN
        IF payloadLen # 2 THEN emitErr(dev, msgType, ERR_BAD_LEN)
        ELSE emitAck([dev EXCEPT !.forcedFocusCluster = readI16LE(payload, 1)],
                     msgType, ACK_OK, readI16LE(payload, 1))
      ELSE IF msgType = CMD_SET_BIO_MS THEN
        IF payloadLen # 2 THEN emitErr(dev, msgType, ERR_BAD_LEN)
        ELSE LET req == readU16LE(payload, 1)
                 applied == clampPeriod(req)
                 status == clampStatus(applied, req)
             IN  emitAck([dev EXCEPT !.BIO_MS = applied], msgType, status, applied)
      ELSE IF msgType = CMD_SET_TARGETS_MS THEN
        IF payloadLen # 2 THEN emitErr(dev, msgType, ERR_BAD_LEN)
        ELSE LET req == readU16LE(payload, 1)
                 applied == clampPeriod(req)
                 status == clampStatus(applied, req)
             IN  emitAck([dev EXCEPT !.TARGETS_MS = applied], msgType, status, applied)
      ELSE IF msgType = CMD_PING THEN
        IF payloadLen # 0 THEN emitErr(dev, msgType, ERR_BAD_LEN)
        ELSE emitPong(dev, ms - dev.t0)
      ELSE emitErr(dev, msgType, ERR_UNKNOWN_CMD)

\* An emitErr of the framing layer (the packet is not handed on).
reject(dev, cmdId, errCode) ==
  emitErr([dev EXCEPT !.disp = Append(dev.disp, [kind |-> "reject", cmdId |-> cmdId,
                                                 errCode |-> errCode])],
          cmdId, errCode)

\* A packet handler that does not compare the CRC.
handleDecodedPacketNoCrc(dev, packet, packetLen, ms) ==
  IF packetLen < 8 THEN reject(dev, 0, ERR_BAD_LEN)
  ELSE LET version == packet[1]
           msgType == packet[2]
           payloadLen == readU16LE(packet, 5)
       IN  IF version # PROTO_VERSION THEN reject(dev, msgType, ERR_UNSUPPORTED_VERSION)
           ELSE IF packetLen # 6 + payloadLen + 2 THEN reject(dev, msgType, ERR_BAD_LEN)
           ELSE applyBinaryCommand(dev, msgType, SubSeq(packet, 7, 6 + payloadLen),
                                   payloadLen, ms)

handleDecodedPacket(dev, packet, packetLen, ms) ==
  IF packetLen < 8 THEN reject(dev, 0, ERR_BAD_LEN)
  ELSE LET version == packet[1]
           msgType == packet[2]
           payloadLen == readU16LE(packet, 5)
       IN  IF version # PROTO_VERSION THEN reject(dev, msgType, ERR_UNSUPPORTED_VERSION)
           ELSE IF packetLen # 6 + payloadLen + 2 THEN reject(dev, msgType, ERR_BAD_LEN)
           ELSE LET payload == SubSeq(packet, 7, 6 + payloadLen)
                    crcExpected == readU16LE(packet, 6 + payloadLen + 1)
                    crcActual == crc16CcittFalse(packet, 6 + payloadLen)
                IN  IF crcExpected # crcActual THEN reject(dev, msgType, ERR_CRC_FAIL)
                    ELSE applyBinaryCommand(dev, msgType, payload, payloadLen, ms)

\* After cobsDecode returned dec and rxEncodedLen was cleared.
pollDecoded(dev, dec, ms) ==
  IF ~dec.ok THEN reject(dev, 0, ERR_BAD_LEN)
  ELSE handleDecodedPacket(dev, dec.output, Len(dec.output), ms)

\* A loop body whose delimiter reports the overflow and leaves the flag set.
pollByteKeepOverflow(dev, byte, ms) ==
  IF byte = 0 THEN
    IF dev.rxOverflow
    THEN reject([dev EXCEPT !.rxEncodedBuf = <<>>], 0, ERR_BAD_LEN)
    ELSE IF Len(dev.rxEncodedBuf) = 0 THEN dev
    ELSE pollDecoded([dev EXCEPT !.rxEncodedBuf = <<>>],
                     cobsDecode(dev.rxEncodedBuf, Len(dev.rxEncodedBuf), RxDecodedCap), ms)
  ELSE IF dev.rxOverflow THEN dev
  ELSE IF Len(dev.rxEncodedBuf) < RxEncodedCap
       THEN [dev EXCEPT !.rxEncodedBuf = Append(dev.rxEncodedBuf, byte)]
       ELSE [dev EXCEPT !.rxOverflow = TRUE]

\* A loop body that leaves the accumulator as it is when it hands a run on.
pollByteKeepBytes(dev, byte, ms) ==
  IF byte = 0 THEN
    IF dev.rxOverflow
    THEN reject([dev EXCEPT !.rxOverflow = FALSE, !.rxEncodedBuf = <<>>], 0, ERR_BAD_LEN)
    ELSE IF Len(dev.rxEncodedBuf) = 0 THEN dev
    ELSE pollDecoded(dev, cobsDecode(dev.rxEncodedBuf, Len(dev.rxEncodedBuf), RxDecodedCap), ms)
  ELSE IF dev.rxOverflow THEN dev
  ELSE IF Len(dev.rxEncodedBuf) < RxEncodedCap
       THEN [dev EXCEPT !.rxEncodedBuf = Append(dev.rxEncodedBuf, byte)]
       ELSE [dev EXCEPT !.rxOverflow = TRUE]

\* A loop body that reports a delimiter that meets an empty accumulator.
pollByteReportEmpty(dev, byte, ms) ==
  IF byte = 0 THEN
    IF dev.rxOverflow
    THEN reject([dev EXCEPT !.rxOverflow = FALSE, !.rxEncodedBuf = <<>>], 0, ERR_BAD_LEN)
    ELSE IF Len(dev.rxEncodedBuf) = 0 THEN reject(dev, 0, ERR_BAD_LEN)
    ELSE pollDecoded([dev EXCEPT !.rxEncodedBuf = <<>>],
                     cobsDecode(dev.rxEncodedBuf, Len(dev.rxEncodedBuf), RxDecodedCap), ms)
  ELSE IF dev.rxOverflow THEN dev
  ELSE IF Len(dev.rxEncodedBuf) < RxEncodedCap
       THEN [dev EXCEPT !.rxEncodedBuf = Append(dev.rxEncodedBuf, byte)]
       ELSE [dev EXCEPT !.rxOverflow = TRUE]

\* The body of pollHostUsbSerial's loop for one byte read from Serial.
pollByte(dev, byte, ms) ==
  IF byte = 0 THEN
    IF dev.rxOverflow
    THEN reject([dev EXCEPT !.rxOverflow = FALSE, !.rxEncodedBuf = <<>>], 0, ERR_BAD_LEN)
    ELSE IF Len(dev.rxEncodedBuf) = 0 THEN dev
    ELSE pollDecoded([dev EXCEPT !.rxEncodedBuf = <<>>],
                     cobsDecode(dev.rxEncodedBuf, Len(dev.rxEncodedBuf), RxDecodedCap), ms)
  ELSE IF dev.rxOverflow THEN dev
  ELSE IF Len(dev.rxEncodedBuf) < RxEncodedCap
       THEN [dev EXCEPT !.rxEncodedBuf = Append(dev.rxEncodedBuf, byte)]
       ELSE [dev EXCEPT !.rxOverflow = TRUE]

\* The while loop over the bytes available on Serial, in arrival order (split
\* in halves, dev looked at first, to keep the evaluation shallow).
RECURSIVE pollLoop(_, _, _, _, _)
pollLoop(dev, bytes, lo, hi, ms) ==
  IF dev.txSeq < 0 \/ lo > hi THEN dev
  ELSE IF lo = hi THEN pollByte(dev, bytes[lo], ms)
  ELSE LET mid == (lo + hi) \div 2
       IN  pollLoop(pollLoop(dev, bytes, lo, mid, ms), bytes, mid + 1, hi, ms)

pollHostUsbSerial(dev, bytes, ms) == pollLoop(dev, bytes, 1, Len(bytes), ms)

(***************************************************************************)
(* Small helpers of the engine                                             *)
(***************************************************************************)
isFinitePositive(v) == isfinite(v) /\ v > 0

guessPose(s, dist_cm) ==
  IF s = NO_TARGET \/ isnan(dist_cm) \/ dist_cm <= 0 THEN UNKNOWN
  ELSE IF dist_cm < SIT_STAND_THRESHOLD_CM THEN SITTING ELSE STANDING

\* A radar frame, as the driver's getters report it after mmWave.update():
\* [human, haveTargets, targets, dist_ok, dist, br_ok, br, hr_ok, hr].
NoRadar == [present |-> FALSE]

\* frame before any radar frame was processed.
NoFrame == [processed |-> FALSE]

NoTx == [kind |-> "none", bytes |-> <<>>]

\* The globals a handler works on, as one record.
Dev ==
  [t0 |-> t0, txSeq |-> txSeq, hostHeadMoving |-> hostHeadMoving,
   forcedFocusCluster |-> forcedFocusCluster, TARGETS_MS |-> TARGETS_MS,
   BIO_MS |-> BIO_MS, rxEncodedBuf |-> rxEncodedBuf, rxOverflow |-> rxOverflow,
   out |-> <<>>, disp |-> <<>>]

\* The globals pollHostUsbSerial and the emitters leave behind.
Commit(dev) ==
  /\ txSeq' = dev.txSeq
  /\ hostHeadMoving' = dev.hostHeadMoving
  /\ forcedFocusCluster' = dev.forcedFocusCluster
  /\ TARGETS_MS' = dev.TARGETS_MS
  /\ BIO_MS' = dev.BIO_MS
  /\ rxEncodedBuf' = dev.rxEncodedBuf
  /\ rxOverflow' = dev.rxOverflow
  /\ out' = dev.out
  /\ disp' = dev.disp

(***************************************************************************)
(* setup()                                                                 *)
(***************************************************************************)
BootMs == 200

setup ==
  /\ ~booted
  /\ booted' = TRUE
  /\ clock' = BootMs
  /\ t0' = BootMs
  /\ \E dev \in {emitHello([Dev EXCEPT !.t0 = BootMs])} :
        /\ Commit(dev)
        /\ hist' = [hist EXCEPT !.written = @ + Len(dev.out)]
  /\ UNCHANGED <<lastDist, lastBR, lastHR, lastPresenceMs, absentStreak, vitalsStreak,
                 humanStableStreak, lastSingleTargetMs, seenSingleTarget,
                 lastTargetsEmitMs, lastBioEmitMs, lastStateEmitMs,
                 prevS, prevP, prevHM, prevN, hostTx, radar, frame>>

(***************************************************************************)
(* loop()                                                                  *)
(*                                                                         *)
(* h is what the host sent (h.bytes are available on Serial when the loop  *)
(* polls), r the radar frame mmWave.update(100) delivers (NoRadar when it  *)
(* times out), dt the milliseconds that pass before loop() reads millis(). *)
(***************************************************************************)
\* loop() up to the movement test, for radar frame r after the poll left dev:
\* focus, last-good values, presence.  (The steps of loop() are chained as
\* operators so that each value is computed once.)
fusionPresence(dev, r, now) ==
  LET headMoving == dev.hostHeadMoving
      nTargets == IF r.haveTargets THEN Len(r.targets) ELSE 0
      distFresh == r.dist_ok /\ isfinite(r.dist)
      brFresh == r.br_ok /\ isfinite(r.br)
      hrFresh == r.hr_ok /\ isfinite(r.hr)
      dist_cm == IF distFresh THEN r.dist ELSE lastDist
      br == IF brFresh THEN r.br ELSE lastBR
      hr == IF hrFresh THEN r.hr ELSE lastHR
      present_now == \/ r.human
                     \/ nTargets > 0
                     \/ (r.dist_ok /\ isFinitePositive(dist_cm))
                     \/ (r.br_ok /\ isFinitePositive(br))
                     \/ (r.hr_ok /\ isFinitePositive(hr))
  IN  [processed |-> TRUE, now |-> now, t_ms |-> now - t0,
       headMoving |-> headMoving, human |-> r.human, nTargets |-> nTargets,
       focus |-> IF r.haveTargets /\ nTargets > 0
                 THEN IF dev.forcedFocusCluster >= 0
                      THEN IF ~pickForcedCluster(r.targets, dev.forcedFocusCluster).valid
                           THEN pickClosestTarget(r.targets)
                           ELSE pickForcedCluster(r.targets, dev.forcedFocusCluster)
                      ELSE pickClosestTarget(r.targets)
                 ELSE NoFocus,
       dist_ok |-> r.dist_ok, br_ok |-> r.br_ok, hr_ok |-> r.hr_ok,
       dist_cm |-> dist_cm, br |-> br, hr |-> hr,
       lastDist |-> dist_cm, lastBR |-> br, lastHR |-> hr,
       present_now |-> present_now,
       lastPresenceMs |-> IF present_now THEN now ELSE lastPresenceMs,
       absentStreak |-> IF present_now THEN 0 ELSE (absentStreak + 1) % U8]

\* A recency test that holds only within the single-target frame itself.
singleRecentSameFrame(seen, now, last) == seen /\ now = last

\* A recency test without the grace period.
singleRecentEver(seen, now, last) == seen

\* singleTargetRecent: a single target was seen at most TARGET_LOSS_GRACE_MS ago.
singleRecent(seen, now, last) == seen /\ (now - last) <= TARGET_LOSS_GRACE_MS

\* A gate without the fallback: the lock is never granted.
fallbackLockNever(singleTarget, nTargets, recent, stable) == FALSE

\* fallbackTargetLock: tracking dropped to no target a moment ago while a
\* human has been reported for long enough.
fallbackLock(singleTarget, nTargets, recent, stable) ==
  ~singleTarget /\ nTargets = 0 /\ recent /\ stable >= HUMAN_STABLE_FALLBACK_CONFIRM

\* A gate that does not look at the head-moving flag.
vitalsAllowedIgnoreHead(headMoving, singleTarget, lock) == singleTarget \/ lock

vitalsAllowed(headMoving, singleTarget, lock) == ~headMoving /\ (singleTarget \/ lock)

\* Movement, near zone, single-target tracking and the vitals gate.
fusionGate(f) ==
  LET now == f.now
      targetMoving == f.focus.valid /\ isfinite(f.focus.speed_cm_s)
                      /\ Abs(f.focus.speed_cm_s) >= MOVING_CM_S
      singleTarget == f.nTargets = 1
      newSeenSingleTarget == IF singleTarget THEN TRUE ELSE seenSingleTarget
      newLastSingleTargetMs == IF singleTarget THEN now ELSE lastSingleTargetMs
      newHumanStableStreak == IF f.human /\ ~f.headMoving
                              THEN (IF humanStableStreak < 255 THEN humanStableStreak + 1 ELSE 255)
                              ELSE 0
      singleTargetRecent == singleRecent(newSeenSingleTarget, now, newLastSingleTargetMs)
      fallbackTargetLock == fallbackLock(singleTarget, f.nTargets, singleTargetRecent,
                                         newHumanStableStreak)
  IN  f @@
      [presence_recent |-> (now - f.lastPresenceMs) < ABSENT_HOLD_MS,
       targetMoving |-> targetMoving,
       moving |-> f.headMoving \/ targetMoving,
       near |-> ~isnan(f.dist_cm) /\ f.dist_cm >= NEAR_MIN_DIST_CM
                /\ f.dist_cm <= NEAR_MAX_DIST_CM,
       singleTarget |-> singleTarget,
       seenSingleTarget |-> newSeenSingleTarget,
       lastSingleTargetMs |-> newLastSingleTargetMs,
       humanStableStreak |-> newHumanStableStreak,
       singleTargetRecent |-> singleTargetRecent,
       fallbackTargetLock |-> fallbackTargetLock,
       br_valid |-> f.br_ok /\ isfinite(f.br) /\ f.br >= BR_MIN /\ f.br <= BR_MAX,
       hr_valid |-> f.hr_ok /\ isfinite(f.hr) /\ f.hr >= HR_MIN /\ f.hr <= HR_MAX,
       vitals_allowed |-> vitalsAllowed(f.headMoving, singleTarget, fallbackTargetLock)]

\* A validity test that does not look at vitals_allowed.
fusionVitalsNoGate(f) ==
  LET vitals_valid == f.br_valid /\ f.hr_valid
  IN  f @@
      [vitals_valid |-> vitals_valid,
       streak1 |-> IF vitals_valid
                   THEN (IF vitalsStreak < 255 THEN vitalsStreak + 1 ELSE 255)
                   ELSE 0]

\* A streak update that counts on in eight bits past 255.
fusionVitalsWrap(f) ==
  LET vitals_valid == f.vitals_allowed /\ f.br_valid /\ f.hr_valid
  IN  f @@
      [vitals_valid |-> vitals_valid,
       streak1 |-> IF vitals_valid THEN (vitalsStreak + 1) % U8 ELSE 0]

\* vitals_valid and the streak update that precedes the state decision.
fusionVitals(f) ==
  LET vitals_valid == f.vitals_allowed /\ f.br_valid /\ f.hr_valid
  IN  f @@
      [vitals_valid |-> vitals_valid,
       streak1 |-> IF vitals_valid
                   THEN (IF vitalsStreak < 255 THEN vitalsStreak + 1 ELSE 255)
                   ELSE 0]

\* A decision that wants one valid frame more than VITALS_CONFIRM.
decideStateLate(f) ==
  IF ~f.presence_recent /\ f.absentStreak >= ABSENT_CONFIRM THEN NO_TARGET
  ELSE IF f.nTargets > 1 THEN MULTI_TARGET
  ELSE IF f.moving THEN MOVING
  ELSE IF f.near /\ f.streak1 > VITALS_CONFIRM THEN RESTING_VITALS
  ELSE IF f.near THEN STILL_NEAR
  ELSE PRESENT_FAR

\* A decision that reports NO_TARGET as soon as either absence test passes.
decideStateEager(f) ==
  IF ~f.presence_recent \/ f.absentStreak >= ABSENT_CONFIRM THEN NO_TARGET
  ELSE IF f.nTargets > 1 THEN MULTI_TARGET
  ELSE IF f.moving THEN MOVING
  ELSE IF f.near /\ f.streak1 >= VITALS_CONFIRM THEN RESTING_VITALS
  ELSE IF f.near THEN STILL_NEAR
  ELSE PRESENT_FAR

\* A decision that tests for movement before it counts the targets.
decideStateMovingFirst(f) ==
  IF ~f.presence_recent /\ f.absentStreak >= ABSENT_CONFIRM THEN NO_TARGET
  ELSE IF f.moving THEN MOVING
  ELSE IF f.nTargets > 1 THEN MULTI_TARGET
  ELSE IF f.near /\ f.streak1 >= VITALS_CONFIRM THEN RESTING_VITALS
  ELSE IF f.near THEN STILL_NEAR
  ELSE PRESENT_FAR

\* A decision that does not look at the target's speed or at the distance.
decideStateStreakOnly(f) ==
  IF ~f.presence_recent /\ f.absentStreak >= ABSENT_CONFIRM THEN NO_TARGET
  ELSE IF f.nTargets > 1 THEN MULTI_TARGET
  ELSE IF f.headMoving THEN MOVING
  ELSE IF f.streak1 >= VITALS_CONFIRM THEN RESTING_VITALS
  ELSE IF f.near THEN STILL_NEAR
  ELSE PRESENT_FAR

\* "Decide state": the first matching rule, and the streak reset it carries.
decideState(f) ==
  IF ~f.presence_recent /\ f.absentStreak >= ABSENT_CONFIRM THEN NO_TARGET
  ELSE IF f.nTargets > 1 THEN MULTI_TARGET
  ELSE IF f.moving THEN MOVING
  ELSE IF f.near /\ f.streak1 >= VITALS_CONFIRM THEN RESTING_VITALS
  ELSE IF f.near THEN STILL_NEAR
  ELSE PRESENT_FAR

\* A state step without the streak reset of NO_TARGET, MULTI_TARGET and MOVING.
fusionStateNoReset(f, s) ==
  f @@ [s |-> s, p |-> guessPose(s, f.dist_cm), vitalsStreak |-> f.streak1]

\* A state step that keeps the old streak whenever the vitals are not valid.
fusionStateKeepStreak(f, s) ==
  f @@ [s |-> s, p |-> guessPose(s, f.dist_cm),
        vitalsStreak |-> IF f.vitals_valid THEN f.streak1 ELSE vitalsStreak]

fusionState(f, s) ==
  f @@ [s |-> s, p |-> guessPose(s, f.dist_cm),
        vitalsStreak |-> IF s \in {NO_TARGET, MULTI_TARGET, MOVING} THEN 0 ELSE f.streak1]

\* Emission conditions that keep the default periods whatever was configured.
fusionScheduleDefaultPeriods(dev, r, f) ==
  f @@
  [sendTargets |-> r.haveTargets /\ f.nTargets > 0
                   /\ (f.now - lastTargetsEmitMs) >= TARGETS_MS_DEFAULT,
   sendState |-> \/ f.s # prevS \/ f.p # prevP \/ f.headMoving # prevHM
                 \/ f.nTargets # prevN
                 \/ (f.now - lastStateEmitMs) > STATE_REFRESH_MS,
   sendBio |-> (f.now - lastBioEmitMs) >= BIO_MS_DEFAULT]

\* Emission conditions that hold EVT_BIO back while nothing is in view.
fusionScheduleBioOnPresence(dev, r, f) ==
  f @@
  [sendTargets |-> r.haveTargets /\ f.nTargets > 0
                   /\ (f.now - lastTargetsEmitMs) >= dev.TARGETS_MS,
   sendState |-> \/ f.s # prevS \/ f.p # prevP \/ f.headMoving # prevHM
                 \/ f.nTargets # prevN
                 \/ (f.now - lastStateEmitMs) > STATE_REFRESH_MS,
   sendBio |-> f.s # NO_TARGET /\ (f.now - lastBioEmitMs) >= dev.BIO_MS]

\* Emission conditions that refresh EVT_STATE when STATE_REFRESH_MS have passed.
fusionScheduleRefreshAt(dev, r, f) ==
  f @@
  [sendTargets |-> r.haveTargets /\ f.nTargets > 0
                   /\ (f.now - lastTargetsEmitMs) >= dev.TARGETS_MS,
   sendState |-> \/ f.s # prevS \/ f.p # prevP \/ f.headMoving # prevHM
                 \/ f.nTargets # prevN
                 \/ (f.now - lastStateEmitMs) >= STATE_REFRESH_MS,
   sendBio |-> (f.now - lastBioEmitMs) >= dev.BIO_MS]

\* The three emission conditions at the end of loop().
fusionSchedule(dev, r, f) ==
  f @@
  [sendTargets |-> r.haveTargets /\ f.nTargets > 0
                   /\ (f.now - lastTargetsEmitMs) >= dev.TARGETS_MS,
   sendState |-> \/ f.s # prevS \/ f.p # prevP \/ f.headMoving # prevHM
                 \/ f.nTargets # prevN
                 \/ (f.now - lastStateEmitMs) > STATE_REFRESH_MS,
   sendBio |-> (f.now - lastBioEmitMs) >= dev.BIO_MS]

\* Everything loop() computes for radar frame r after the poll left dev.
fusionDecide(f) == fusionState(f, decideState(f))

fusion(dev, r, now) ==
  fusionSchedule(dev, r, fusionDecide(fusionVitals(fusionGate(fusionPresence(dev, r, now)))))

\* Emissions that reach the wire before the answers of the poll.
telemetryFirst(dev, r, f) ==
  LET d1 == IF f.sendTargets
            THEN emitTargets([dev EXCEPT !.out = <<>>], f.t_ms, r.targets, f.focus)
            ELSE [dev EXCEPT !.out = <<>>]
      d2 == IF f.sendState
            THEN emitState(d1, f.t_ms, f.s, f.p, f.headMoving, f.human, f.nTargets,
                           f.dist_cm, r.dist_ok)
            ELSE d1
      d3 == IF f.sendBio
            THEN emitBio(d2, f.t_ms, f.vitals_allowed, f.vitals_valid, f.br,
                         f.vitals_allowed /\ f.br_valid, f.hr, f.vitals_allowed /\ f.hr_valid)
            ELSE d2
  IN  [d3 EXCEPT !.out = d3.out \o dev.out]

\* Emissions that make up for a missed EVT_BIO period with a second EVT_BIO.
telemetryCatchUp(dev, r, f) ==
  LET d1 == IF f.sendTargets THEN emitTargets(dev, f.t_ms, r.targets, f.focus) ELSE dev
      d2 == IF f.sendState
            THEN emitState(d1, f.t_ms, f.s, f.p, f.headMoving, f.human, f.nTargets,
                           f.dist_cm, r.dist_ok)
            ELSE d1
      d3 == IF f.sendBio
            THEN emitBio(d2, f.t_ms, f.vitals_allowed, f.vitals_valid, f.br,
                         f.vitals_allowed /\ f.br_valid, f.hr, f.vitals_allowed /\ f.hr_valid)
            ELSE d2
  IN  IF f.sendBio /\ (f.now - lastBioEmitMs) >= 2 * dev.BIO_MS
      THEN emitBio(d3, f.t_ms, f.vitals_allowed, f.vitals_valid, f.br,
                   f.vitals_allowed /\ f.br_valid, f.hr, f.vitals_allowed /\ f.hr_valid)
      ELSE d3

\* The three emissions at the end of loop(), in the order of the source.
telemetry(dev, r, f) ==
  LET d1 == IF f.sendTargets THEN emitTargets(dev, f.t_ms, r.targets, f.focus) ELSE dev
      d2 == IF f.sendState
            THEN emitState(d1, f.t_ms, f.s, f.p, f.headMoving, f.human, f.nTargets,
                           f.dist_cm, r.dist_ok)
            ELSE d1
  IN  IF f.sendBio
      THEN emitBio(d2, f.t_ms, f.vitals_allowed, f.vitals_valid, f.br,
                   f.vitals_allowed /\ f.br_valid, f.hr, f.vitals_allowed /\ f.hr_valid)
      ELSE d2

(***************************************************************************)
(* Observations.  hist is not read by the program; it records              *)
(*   written      the number of frames written to Serial since power-up,   *)
(*   loops        the number of times loop() has run,                      *)
(*   hmCmd        the payload byte of the last SET_HM the dispatcher        *)
(*                accepted (-1 before the first),                          *)
(*   goodRun      the length of the current run of consecutive processed   *)
(*                frames that qualify for vitals (restingFrame), counted   *)
(*                from a frame that found vitalsStreak = 0,                *)
(*   singleRun    the length of the current run of consecutive processed   *)
(*                frames with one target, human, head not moving,          *)
(*   lastS        the state of the last processed frame (-1 before it),    *)
(*   lastFrameMs  millis() as read by the last processed frame,            *)
(*   goodDist     the most recent distance reading the radar reported ok   *)
(*                that was finite and positive (NaN before the first),     *)
(*   stateTuple   (state, pose, head_moving, n_targets) as carried by the  *)
(*                last EVT_STATE written (<<>> before the first),          *)
(*   stateMs      millis() of the frame that wrote it,                     *)
(*   lastTuple    the same tuple of the last processed frame,              *)
(*   bioMs        millis() of the frame that wrote the last EVT_BIO (0     *)
(*                before the first),                                       *)
(*   targetsMs    the same for EVT_TARGETS,                                *)
(*   absentRun    the length of the current run of consecutive processed   *)
(*                frames without a presence signal (not capped),           *)
(*   present      whether a processed frame has carried a presence signal, *)
(*   humanRun     the length of the current run of consecutive processed   *)
(*                frames with human set and the head not moving,           *)
(*   singleMs     millis() of the last processed frame with exactly one    *)
(*                target (-1 before the first).                            *)
(***************************************************************************)
NoHist ==
  [written |-> 0, loops |-> 0, hmCmd |-> -1, goodRun |-> 0, singleRun |-> 0, lastS |-> -1,
   lastFrameMs |-> 0, goodDist |-> NaN, stateTuple |-> <<>>, stateMs |-> 0,
   lastTuple |-> <<>>, bioMs |-> 0, targetsMs |-> 0, absentRun |-> 0, present |-> FALSE,
   humanRun |-> 0, singleMs |-> -1]

\* The last SET_HM of the decoder log that applyBinaryCommand accepted.
RECURSIVE lastSetHm(_, _, _)
lastSetHm(log, i, prev) ==
  IF i > Len(log) THEN prev
  ELSE lastSetHm(log, i + 1,
                 IF log[i].kind = "cmd" /\ log[i].msgType = CMD_SET_HM
                    /\ log[i].payload \in {<<0>>, <<1>>}
                 THEN log[i].payload[1]
                 ELSE prev)

\* One target, head still, fresh distance in the near zone, fresh in-range
\* breath and heart rate, a focus target slower than 8 cm/s.
restingFrame(r, f) ==
  /\ f.nTargets = 1 /\ ~f.headMoving
  /\ r.dist_ok /\ isfinite(r.dist) /\ r.dist >= 35 /\ r.dist <= 150
  /\ r.br_ok /\ isfinite(r.br) /\ r.br >= 4 /\ r.br <= 30
  /\ r.hr_ok /\ isfinite(r.hr) /\ r.hr >= 35 /\ r.hr <= 200
  /\ f.focus.valid /\ isfinite(f.focus.speed_cm_s) /\ Abs(f.focus.speed_cm_s) < 8

\* Radar frame r carries a presence signal: the human flag, a target, or a
\* fresh finite positive distance, breath or heart value.
signalIn(r) ==
  \/ r.human
  \/ (r.haveTargets /\ Len(r.targets) > 0)
  \/ (r.dist_ok /\ isFinitePositive(r.dist))
  \/ (r.br_ok /\ isFinitePositive(r.br))
  \/ (r.hr_ok /\ isFinitePositive(r.hr))

\* The tuple an EVT_STATE frame carries in its payload.
stateTupleOf(fr) == <<fr.payload[5], fr.payload[6], fr.payload[7], fr.payload[9]>>

\* The tuple of the last EVT_STATE among the frames o, prev when there is none.
lastStateIn(o, prev) ==
  LET at == { i \in 1..Len(o) : o[i].msgType = EVT_STATE }
  IN  IF at = {} THEN prev
      ELSE stateTupleOf(o[CHOOSE i \in at : \A j \in at : j <= i])

\* hist after a loop() that polled, left dev and did not process a frame.
ObservedPoll(dev) ==
  [hist EXCEPT !.written = @ + Len(dev.out),
               !.loops = @ + 1,
               !.hmCmd = lastSetHm(dev.disp, 1, @)]

\* hist after a loop() that processed radar frame r with the values f.
Observed(dev, r, f) ==
  [written |-> hist.written + Len(dev.out),
   loops |-> hist.loops + 1,
   hmCmd |-> lastSetHm(dev.disp, 1, hist.hmCmd),
   goodRun |-> IF ~restingFrame(r, f) THEN 0
               ELSE IF hist.goodRun > 0 THEN hist.goodRun + 1
               ELSE IF vitalsStreak = 0 THEN 1 ELSE 0,
   singleRun |-> IF f.nTargets = 1 /\ f.human /\ ~f.headMoving
                 THEN hist.singleRun + 1 ELSE 0,
   lastS |-> f.s,
   lastFrameMs |-> f.now,
   goodDist |-> IF r.dist_ok /\ isFinitePositive(r.dist) THEN r.dist ELSE hist.goodDist,
   stateTuple |-> lastStateIn(dev.out, hist.stateTuple),
   stateMs |-> IF \E i \in 1..Len(dev.out) : dev.out[i].msgType = EVT_STATE
               THEN f.now ELSE hist.stateMs,
   lastTuple |-> <<f.s, f.p, IF f.headMoving THEN 1 ELSE 0, f.nTargets>>,
   bioMs |-> IF \E i \in 1..Len(dev.out) : dev.out[i].msgType = EVT_BIO
             THEN f.now ELSE hist.bioMs,
   targetsMs |-> IF \E i \in 1..Len(dev.out) : dev.out[i].msgType = EVT_TARGETS
                 THEN f.now ELSE hist.targetsMs,
   absentRun |-> IF signalIn(r) THEN 0 ELSE hist.absentRun + 1,
   present |-> hist.present \/ signalIn(r),
   humanRun |-> IF r.human /\ ~dev.hostHeadMoving THEN hist.humanRun + 1 ELSE 0,
   singleMs |-> IF r.haveTargets /\ Len(r.targets) = 1 THEN f.now ELSE hist.singleMs]

\* What frame keeps of the state loop() found: the streak, the state of the
\* previous processed frame, the run of single-target frames before this one,
\* the time since the previous processed frame and the last good distance
\* reading of the earlier frames, the tuple and time of the last EVT_STATE,
\* the tuple of the previous processed frame and the times of the last EVT_BIO
\* and EVT_TARGETS.
Before(f) ==
  [streak0 |-> vitalsStreak, s0 |-> hist.lastS, singleRun0 |-> hist.singleRun,
   sinceLast |-> f.now - hist.lastFrameMs, goodDist0 |-> hist.goodDist,
   stateTuple0 |-> hist.stateTuple, stateMs0 |-> hist.stateMs,
   lastTuple0 |-> hist.lastTuple, bioMs0 |-> hist.bioMs, targetsMs0 |-> hist.targetsMs]

\* loop() after pollHostUsbSerial() has left polled.
loopAfterPoll(polled, h, r, dt) ==
  /\ booted
  /\ IF ~r.present
     THEN /\ Commit(polled)
          /\ frame' = NoFrame
          /\ hist' = ObservedPoll(polled)
          /\ UNCHANGED <<lastDist, lastBR, lastHR, lastPresenceMs, absentStreak,
                         vitalsStreak, humanStableStreak, lastSingleTargetMs,
                         seenSingleTarget, lastTargetsEmitMs, lastBioEmitMs,
                         lastStateEmitMs, prevS, prevP, prevHM, prevN>>
     ELSE \E f \in {fusion(polled, r, clock + dt)} :
           \E dev \in {telemetry(polled, r, f)} :
              /\ Commit(dev)
              /\ frame' = f @@ Before(f)
              /\ hist' = Observed(dev, r, f)
              /\ lastDist' = f.lastDist
              /\ lastBR' = f.lastBR
              /\ lastHR' = f.lastHR
              /\ lastPresenceMs' = f.lastPresenceMs
              /\ absentStreak' = f.absentStreak
              /\ vitalsStreak' = f.vitalsStreak
              /\ humanStableStreak' = f.humanStableStreak
              /\ lastSingleTargetMs' = f.lastSingleTargetMs
              /\ seenSingleTarget' = f.seenSingleTarget
              /\ lastTargetsEmitMs' = IF f.sendTargets THEN f.now ELSE lastTargetsEmitMs
              /\ lastStateEmitMs' = IF f.sendState THEN f.now ELSE lastStateEmitMs
              /\ lastBioEmitMs' = IF f.sendBio THEN f.now ELSE lastBioEmitMs
              /\ prevS' = IF f.sendState THEN f.s ELSE prevS
              /\ prevP' = IF f.sendState THEN f.p ELSE prevP
              /\ prevHM' = IF f.sendState THEN f.headMoving ELSE prevHM
              /\ prevN' = IF f.sendState THEN f.nTargets ELSE prevN
  /\ clock' = clock + dt
  /\ hostTx' = h
  /\ radar' = r
  /\ UNCHANGED <<booted, t0>>

\* A loop() that does not look at Serial.
polledNothing(h) == Dev

\* The poll at the top of loop(): the bytes the host sent are on Serial.
polledHost(h) == pollHostUsbSerial(Dev, h.bytes, clock)

loop(h, r, dt) == loopAfterPoll(polledHost(h), h, r, dt)


(***************************************************************************)
(* Power-up: the globals as initialised at lines 132-166; the host may     *)
(* already have put hostTx.bytes on the link.                              *)
(***************************************************************************)
PowerUp(tx) ==
  /\ booted = FALSE
  /\ clock = 0
  /\ t0 = 0
  /\ txSeq = 0
  /\ lastDist = NaN /\ lastBR = NaN /\ lastHR = NaN
  /\ lastPresenceMs = 0
  /\ absentStreak = 0
  /\ vitalsStreak = 0
  /\ humanStableStreak = 0
  /\ lastSingleTargetMs = 0
  /\ seenSingleTarget = FALSE
  /\ lastTargetsEmitMs = 0 /\ lastBioEmitMs = 0 /\ lastStateEmitMs = 0
  /\ hostHeadMoving = FALSE
  /\ forcedFocusCluster = -1
  /\ TARGETS_MS = TARGETS_MS_DEFAULT
  /\ BIO_MS = BIO_MS_DEFAULT
  /\ prevS = NO_TARGET /\ prevP = UNKNOWN /\ prevHM = FALSE /\ prevN = -1
  /\ rxEncodedBuf = <<>>
  /\ rxOverflow = FALSE
  /\ out = <<>>
  /\ disp = <<>>
  /\ hostTx = tx
  /\ radar = NoRadar
  /\ frame = NoFrame
  /\ hist = NoHist

Init == PowerUp(NoTx)

(***************************************************************************)
(* Inputs                                                                  *)
(***************************************************************************)
\* A frame as the host sends it: the same packet layout, stuffing and
\* delimiter as sendFrame.  The device does not read an inbound seq.
hostFrame(msgType, payload) ==
  [kind |-> "frame", msgType |-> msgType, payload |-> payload,
   bytes |-> wireBytes([msgType |-> msgType, seq |-> 0, payload |-> payload])]

\* An empty COBS block and its delimiter: a packet of no bytes.
EmptyPacketTx == [kind |-> "raw", bytes |-> <<1, 0>>]

slowTarget == [cluster_index |-> 1, x_point |-> 0, y_point |-> 1, dop_index |-> 0]
fastTarget == [cluster_index |-> 2, x_point |-> 2, y_point |-> 0, dop_index |-> -10]

radarFrame(human, targets, dist_ok, dist, br_ok, br, hr_ok, hr) ==
  [present |-> TRUE, human |-> human, haveTargets |-> TRUE, targets |-> targets,
   dist_ok |-> dist_ok, dist |-> dist, br_ok |-> br_ok, br |-> br,
   hr_ok |-> hr_ok, hr |-> hr]

\* One slow target at 80 cm with breath 14 and heart 72: a resting subject.
RestingRadar == radarFrame(TRUE, <<slowTarget>>, TRUE, 80, TRUE, 14, TRUE, 72)
\* The same subject while target tracking has dropped to no target.
LostTargetRadar == radarFrame(TRUE, <<>>, TRUE, 80, TRUE, 14, TRUE, 72)
\* The same subject with a second, fast target in view.
TwoTargetRadar == radarFrame(TRUE, <<slowTarget, fastTarget>>, TRUE, 80, TRUE, 14, TRUE, 72)
\* Nothing in view and no reading.
EmptyRadar == radarFrame(FALSE, <<>>, FALSE, NaN, FALSE, NaN, FALSE, NaN)

HmOnTx == hostFrame(CMD_SET_HM, <<1>>)
HmOffTx == hostFrame(CMD_SET_HM, <<0>>)
PingTx == hostFrame(CMD_PING, <<>>)

(***************************************************************************)
(* Spec: loop() over a broad set of radar frames and host commands, one    *)
(* radar frame every MainDt ms.                                            *)
(***************************************************************************)
MainRadar ==
  { EmptyRadar, LostTargetRadar, RestingRadar, TwoTargetRadar,
    radarFrame(TRUE, <<slowTarget>>, TRUE, 200, TRUE, 14, TRUE, 72),
    radarFrame(TRUE, <<slowTarget>>, TRUE, 80, TRUE, 50, TRUE, 72),
    radarFrame(TRUE, <<fastTarget>>, TRUE, 80, TRUE, 14, TRUE, 72) }

MainHostTx == { NoTx, HmOnTx, HmOffTx, PingTx }

MainDt == 500

\* loop() is not run after millis() passes MaxClock.
MaxClock == 2200

\* loop(h, r, MainDt); the poll is evaluated once for each h.
MainLoop ==
  /\ clock + MainDt <= MaxClock
  /\ \E h \in MainHostTx :
       \E polled \in {polledHost(h)} :
         \E r \in MainRadar \cup {NoRadar} :
           loopAfterPoll(polled, h, r, MainDt)

Next == setup \/ MainLoop

Spec == Init /\ [][Next]_vars

(***************************************************************************)
(* SpecCodec: the framing layer.  The host has put one transmission on the *)
(* link at power-up -- a frame encoded as sendFrame encodes, or such a     *)
(* frame with one bit of its stuffed bytes flipped -- and the first loop() *)
(* after setup() polls it.                                                 *)
(***************************************************************************)
\* The longest payload of the codec specification.
MaxPayload == 256

Fill(n, v) == IF n = 0 THEN <<>> ELSE [i \in 1..n |-> v]
Ramp(n) == IF n = 0 THEN <<>> ELSE [i \in 1..n |-> i % U8]

CodecLens == {0, 1, 2, 3} \cup ((MaxPayload - 4)..MaxPayload)

CodecPayloads ==
  UNION { {Fill(n, 0), Fill(n, 1), Fill(n, 255), Ramp(n)} : n \in CodecLens }

CodecMsgTypes == {0, CMD_SET_HM, 200}

CodecCommands ==
  { HmOnTx, HmOffTx, PingTx,
    hostFrame(CMD_SET_FOCUS, <<255, 255>>),
    hostFrame(CMD_SET_BIO_MS, <<232, 3>>),
    hostFrame(CMD_SET_TARGETS_MS, <<10, 0>>),
    hostFrame(9, <<7, 0, 7>>),
    hostFrame(200, Ramp(20)) }

CodecFrames ==
  CodecCommands \cup { hostFrame(m, p) : m \in CodecMsgTypes, p \in CodecPayloads }

\* tx with bit b of its i-th stuffed byte flipped.
flipped(tx, i, b) ==
  [kind |-> "flipped", msgType |-> tx.msgType, payload |-> tx.payload,
   at |-> i, bit |-> b,
   bytes |-> [tx.bytes EXCEPT ![i] = Xor8(@, 2 ^ b)]]

\* Every single-bit flip of the stuffed bytes of tx, the delimiter excluded.
FlipsOf(tx) == { flipped(tx, i, b) : i \in 1..(Len(tx.bytes) - 1), b \in 0..7 }

CodecTx == CodecFrames \cup UNION { FlipsOf(tx) : tx \in CodecCommands }

CodecDt == 100

InitCodec == \E tx \in CodecTx : PowerUp(tx)

\* The first loop() after setup(): it polls what the host sent; no radar frame.
CodecLoop ==
  /\ clock = BootMs
  /\ loop(hostTx, NoRadar, CodecDt)

NextCodec == setup \/ CodecLoop

SpecCodec == InitCodec /\ [][NextCodec]_vars

\* The device has polled what the host sent.
Polled == booted /\ clock > BootMs

\* The error codes of the EVT_ERR frames in out, and whether out holds
\* anything else.
ErrCodes == { out[i].payload[2] : i \in { j \in 1..Len(out) : out[j].msgType = EVT_ERR } }
OnlyErrFrames == \A i \in 1..Len(out) : out[i].msgType = EVT_ERR
Dispatched == { i \in 1..Len(disp) : disp[i].kind = "cmd" }

\* w ends in 0x00 and holds no other 0x00.
ZeroOnlyAtEnd(w) ==
  /\ Len(w) >= 2
  /\ w[Len(w)] = 0
  /\ \A i \in 1..(Len(w) - 1) : w[i] # 0

\* C1 -- Frame round-trip: when the decoder, starting from an empty
\* accumulator, is fed the bytes the encoder produces for (msgType, payload),
\* payload of at most MaxPayload bytes, it hands exactly that (msgType,
\* payload) to the dispatcher, once, rejects nothing, and is left with an
\* empty accumulator.
C1_FrameRoundTrip ==
  (Polled /\ hostTx.kind = "frame") =>
    /\ disp = <<[kind |-> "cmd", msgType |-> hostTx.msgType, payload |-> hostTx.payload]>>
    /\ rxEncodedBuf = <<>>
    /\ ~rxOverflow

\* A 256-byte payload without a zero byte (its stuffing holds a 0xFF block)
\* has been polled and handed on.
C1_Witness ==
  /\ Polled /\ hostTx.kind = "frame"
  /\ Len(hostTx.payload) = 256
  /\ \E i \in 1..Len(hostTx.bytes) : hostTx.bytes[i] = 255 /\ hostTx.payload[1] = 1
  /\ Dispatched # {}

C3_CobsNoZero ==
  /\ hostTx.kind = "frame" => ZeroOnlyAtEnd(hostTx.bytes)
  /\ \A i \in 1..Len(out) : ZeroOnlyAtEnd(wireBytes(out[i]))

\* A frame whose 256 payload bytes are all 0x00 has been encoded, and the
\* device has written a frame in answer.
C3_Witness ==
  /\ Polled /\ hostTx.kind = "frame"
  /\ hostTx.payload = Fill(256, 0)
  /\ out # <<>>

(***************************************************************************)
(* SpecSeq: the outbound sequence number across its wrap.  The host first  *)
(* floods the link with empty packets (each is answered by one EVT_ERR)    *)
(* until FloodFrames frames have been written, then sends commands while   *)
(* radar frames arrive.                                                    *)
(***************************************************************************)
FloodFrames == 65532
FloodPackets == 32
SeqLoops == 3
SeqDt == 500

RECURSIVE Repeat(_, _)
Repeat(bytes, n) == IF n = 0 THEN <<>> ELSE bytes \o Repeat(bytes, n - 1)

\* FloodPackets empty packets in one poll.
FloodTx == [kind |-> "raw", bytes |-> Repeat(EmptyPacketTx.bytes, FloodPackets)]

FloodDt == 1

SeqFlood ==
  /\ hist.written < FloodFrames
  /\ loop(IF hist.written + FloodPackets <= FloodFrames THEN FloodTx ELSE EmptyPacketTx,
          NoRadar, FloodDt)

\* millis() when the flood ends: full polls first, then single packets.
FloodEndMs ==
  BootMs + FloodDt * (((FloodFrames - 1) \div FloodPackets) + ((FloodFrames - 1) % FloodPackets))

SeqHostTx == { NoTx, HmOnTx, PingTx }
SeqRadar == { NoRadar, RestingRadar, TwoTargetRadar }

SeqLoop ==
  /\ hist.written >= FloodFrames
  /\ clock + SeqDt <= FloodEndMs + SeqLoops * SeqDt
  /\ \E h \in SeqHostTx :
       \E polled \in {polledHost(h)} :
         \E r \in SeqRadar :
           loopAfterPoll(polled, h, r, SeqDt)

NextSeq == setup \/ SeqFlood \/ SeqLoop

SpecSeq == Init /\ [][NextSeq]_vars

\* The position, counted from power-up, of the i-th frame of out.
FrameNo(i) == hist.written - Len(out) + i

\* C4 -- Monotonic seq: the k-th frame written since power-up carries seq
\* (k - 1) mod 2^16: the first frame has seq 0 and every later frame the seq
\* of the frame before it plus 1 modulo 2^16, none repeated, none skipped;
\* the frame with seq 0 at boot is the HELLO frame.
C4_MonotonicSeq ==
  /\ \A i \in 1..Len(out) : out[i].seq = (FrameNo(i) - 1) % U16
  /\ \A i \in 1..Len(out) : FrameNo(i) = 1 => out[i].msgType = EVT_HELLO
  /\ txSeq = hist.written % U16

\* A loop() that processed a radar frame has written frame number 65537, the
\* one after seq 65535, with seq 0.
C4_Witness ==
  /\ frame.processed
  /\ \E i \in 1..Len(out) :
       FrameNo(i) = U16 + 1 /\ out[i].seq = 0 /\ out[i].msgType # EVT_ERR

\* C5 -- EVT_HELLO once and first: the first frame written after power-up is
\* EVT_HELLO, written by setup(), nothing is written before setup(), and no
\* later frame is an EVT_HELLO.
C5_HelloOnceFirst ==
  /\ booted <=> hist.written >= 1
  /\ ~booted => out = <<>>
  /\ \A i \in 1..Len(out) : (out[i].msgType = EVT_HELLO) <=> (FrameNo(i) = 1)

\* The device has answered a PING, after other frames, and none of them is a
\* second HELLO.
C5_Witness ==
  /\ hist.written >= 4
  /\ \E i \in 1..Len(out) : out[i].msgType = EVT_PONG
  /\ \E i \in 1..Len(out) : out[i].msgType = EVT_STATE

(***************************************************************************)
(* SpecRest: a subject resting in front of the sensor.  WarmupFrames radar *)
(* frames of the resting subject arrive while the host is silent (the      *)
(* vitals streak climbs from 0 to its cap), then for RestLoops frames the  *)
(* host toggles head_moving while targets come and go.                     *)
(***************************************************************************)
WarmupFrames == 255
RestLoops == 6
RestDt == 100

WarmupEndMs == BootMs + WarmupFrames * RestDt

RestWarmup ==
  /\ clock < WarmupEndMs
  /\ loop(NoTx, RestingRadar, RestDt)

RestHostTx == { NoTx, HmOnTx, HmOffTx }
RestRadar == { RestingRadar, LostTargetRadar, TwoTargetRadar }

RestLoop ==
  /\ clock >= WarmupEndMs
  /\ clock + RestDt <= WarmupEndMs + RestLoops * RestDt
  /\ \E h \in RestHostTx :
       \E polled \in {polledHost(h)} :
         \E r \in RestRadar :
           loopAfterPoll(polled, h, r, RestDt)

NextRest == setup \/ RestWarmup \/ RestLoop

SpecRest == Init /\ [][NextRest]_vars

\* The allowed and valid bytes of the EVT_BIO frames in out.
BioFrames == { i \in 1..Len(out) : out[i].msgType = EVT_BIO }
BioAllowed(i) == out[i].payload[5]
BioValid(i) == out[i].payload[6]

\* The radar frame of the last loop() carried fresh in-range breath and heart
\* rates.
FreshVitals ==
  /\ radar.br_ok /\ isfinite(radar.br) /\ radar.br >= 4 /\ radar.br <= 30
  /\ radar.hr_ok /\ isfinite(radar.hr) /\ radar.hr >= 35 /\ radar.hr <= 200

\* C6 -- Vitals gating: when a radar frame is processed while head_moving is
\* set, an EVT_BIO written from that frame has valid = 0 and allowed = 0,
\* whatever the targets, the fallback window and the readings are.
C6_VitalsGating ==
  (frame.processed /\ frame.headMoving) =>
    /\ ~frame.vitals_allowed /\ ~frame.vitals_valid
    /\ \A i \in BioFrames : BioValid(i) = 0 /\ BioAllowed(i) = 0

\* An EVT_BIO has been written for a frame with one target and fresh in-range
\* vitals while head_moving was set.
C6_Witness ==
  /\ frame.processed /\ frame.headMoving
  /\ BioFrames # {}
  /\ frame.nTargets = 1 /\ FreshVitals

\* C7 -- Head-moving kill: while the last SET_HM the dispatcher accepted is
\* SET_HM(1), every processed radar frame -- the first one after the command
\* included, and whatever the streak was -- is not classified RESTING_VITALS,
\* has vitals_allowed = 0 (so has any EVT_BIO written from it) and leaves
\* vitalsStreak = 0.
C7_HeadMovingKill ==
  (hist.hmCmd = 1 /\ frame.processed) =>
    /\ frame.s # RESTING_VITALS
    /\ ~frame.vitals_allowed
    /\ vitalsStreak = 0
    /\ \A i \in BioFrames : BioAllowed(i) = 0

\* SET_HM(1) has been accepted while the device was in RESTING_VITALS with
\* the streak at its cap, and the next frame of the resting subject has been
\* processed.
C7_Witness ==
  /\ hist.hmCmd = 1 /\ frame.processed
  /\ frame.s0 = RESTING_VITALS /\ frame.streak0 = 255
  /\ radar = RestingRadar
  /\ \E i \in 1..Len(disp) : disp[i].kind = "cmd" /\ disp[i].msgType = CMD_SET_HM

\* C8 -- Multi-target reset: a processed frame with more than one target
\* leaves vitalsStreak = 0, and the processed frame that follows a frame
\* classified MULTI_TARGET is not classified RESTING_VITALS.
C8_MultiTargetReset ==
  /\ (frame.processed /\ frame.nTargets > 1) => vitalsStreak = 0
  /\ (frame.processed /\ frame.s0 = MULTI_TARGET) => frame.s # RESTING_VITALS

\* A frame of the resting subject has been processed right after a
\* MULTI_TARGET frame and is classified STILL_NEAR.
C8_Witness ==
  /\ frame.processed /\ frame.s0 = MULTI_TARGET
  /\ radar = RestingRadar /\ ~frame.headMoving
  /\ frame.s = STILL_NEAR

\* C9 -- Reaching RESTING_VITALS: in a run of consecutive processed frames
\* that each qualify (restingFrame), the first of which found vitalsStreak =
\* 0, frames 1 to 4 are classified STILL_NEAR and frame 5 and every later
\* frame RESTING_VITALS.
C9_RestingOnFifthFrame ==
  (frame.processed /\ hist.goodRun >= 1) =>
    frame.s = IF hist.goodRun <= 4 THEN STILL_NEAR ELSE RESTING_VITALS

\* The sixth frame of such a run has been processed.
C9_Witness ==
  /\ frame.processed /\ hist.goodRun = 6
  /\ frame.s = RESTING_VITALS

\* The case of C10: the last processed frame has no target, human set, head
\* not moving, and follows, within 1200 ms, a run of at least 3 processed
\* frames with one target, human set and head not moving.
FallbackCase ==
  /\ frame.processed
  /\ frame.singleRun0 >= 3
  /\ frame.nTargets = 0 /\ frame.human /\ ~frame.headMoving
  /\ frame.sinceLast <= 1200

HoldWarmup == 6
HoldLoops == 6
HoldDt == 100
HoldGapDt == 1200

\* A distance reading alone: no human flag, no target, no vitals.
distOnly(dist_ok, dist) == radarFrame(FALSE, <<>>, dist_ok, dist, FALSE, NaN, FALSE, NaN)

HoldRadar ==
  { EmptyRadar, NoRadar, distOnly(TRUE, 80), distOnly(TRUE, 0), distOnly(TRUE, -5),
    distOnly(TRUE, NaN) }

HoldWarmupLoop ==
  /\ hist.loops < HoldWarmup
  /\ loop(NoTx, EmptyRadar, HoldDt)

\* A free loop, HoldDt or HoldGapDt ms after the last one.
HoldLoop ==
  /\ hist.loops >= HoldWarmup
  /\ hist.loops < HoldWarmup + HoldLoops
  /\ \E dt \in {HoldDt, HoldGapDt} :
       \E polled \in {polledHost(NoTx)} :
         \E r \in HoldRadar :
           loopAfterPoll(polled, NoTx, r, dt)

NextHold == setup \/ HoldWarmupLoop \/ HoldLoop

SpecHold == Init /\ [][NextHold]_vars

\* The radar frame of the last loop() carried a presence signal: the human
\* flag, a target, or a fresh finite positive distance, breath or heart value.
PresenceSignal ==
  \/ radar.human
  \/ (radar.haveTargets /\ Len(radar.targets) > 0)
  \/ (radar.dist_ok /\ isFinitePositive(radar.dist))
  \/ (radar.br_ok /\ isFinitePositive(radar.br))
  \/ (radar.hr_ok /\ isFinitePositive(radar.hr))

\* C11 -- Hysteresis: a processed frame is classified NO_TARGET only if, on
\* that frame, now - lastPresenceMs >= ABSENT_HOLD_MS and absentStreak >=
\* ABSENT_CONFIRM; no frame that carries a presence signal is classified
\* NO_TARGET.
C11_Hysteresis ==
  (frame.processed /\ frame.s = NO_TARGET) =>
    /\ frame.now - lastPresenceMs >= ABSENT_HOLD_MS
    /\ absentStreak >= ABSENT_CONFIRM
    /\ ~PresenceSignal

\* A frame is classified NO_TARGET after a frame that was not; and a frame
\* with eight absent frames behind it, less than ABSENT_HOLD_MS after the last
\* presence, is not.
C11_Witness ==
  /\ frame.processed /\ frame.s = NO_TARGET
  /\ frame.s0 \notin {-1, NO_TARGET}
  /\ absentStreak >= ABSENT_CONFIRM

\* The EVT_STATE frames in out and the distance field of one, in mm.
StateFrames == { i \in 1..Len(out) : out[i].msgType = EVT_STATE }
StateDistMm(i) == readU16LE(out[i].payload, 11)

\* No reading of the radar frame of the last loop() was reported ok.
AllNotOk == ~radar.dist_ok /\ ~radar.br_ok /\ ~radar.hr_ok

\* C12 -- Last-good preservation: on a processed frame where distance, breath
\* and heart all report not ok, the distance used for classification and
\* written to EVT_STATE is the most recent finite positive distance the radar
\* reported ok in an earlier frame, and the missing sentinel if there was none.
C12_LastGoodPreserved ==
  (frame.processed /\ AllNotOk) =>
    /\ frame.dist_cm = frame.goodDist0
    /\ \A i \in StateFrames :
         StateDistMm(i) = IF isnan(frame.goodDist0) THEN 65535 ELSE frame.goodDist0 * 10

\* C13 -- lastDist, lastBR and lastHR are each NaN or finite and strictly
\* positive in every reachable state.
C13_LastGoodPositive ==
  \A v \in {lastDist, lastBR, lastHR} : isnan(v) \/ v > 0

(***************************************************************************)
(* SpecCmd: the command layer.  The first loop() after setup() polls a     *)
(* transmission that configures the device or leaves a partial frame in    *)
(* the accumulator; the second polls a command, a malformed or truncated   *)
(* frame, or two frames in one chunk.  Each loop may process a radar frame.*)
(***************************************************************************)
\* The period commands request 0..MaxSmallPeriod and the values around the
\* ends of the ranges of one and two bytes.
MaxSmallPeriod == 120

PeriodValues == (0..MaxSmallPeriod) \cup {255, 256, 1000, 32767, 32768, 65534, 65535}

PeriodCmds == {CMD_SET_BIO_MS, CMD_SET_TARGETS_MS}

PeriodTx == { hostFrame(c, U16LE(v)) : c \in PeriodCmds, v \in PeriodValues }

\* Bytes put on the link as they are.
rawTx(bytes) == [kind |-> "raw", bytes |-> bytes]

\* A packet of any content, stuffed and delimited as sendFrame does.
hostPacket(packet) == [kind |-> "packet", packet |-> packet, bytes |-> stuffed(packet)]

\* The first n bytes of a transmission: the delimiter has not arrived.
truncated(tx, n) == [kind |-> "truncated", bytes |-> SubSeq(tx.bytes, 1, n)]

\* Two transmissions read by one pollHostUsbSerial().
chunk(a, b) == [kind |-> "chunk", first |-> a, second |-> b, bytes |-> a.bytes \o b.bytes]

\* n non-zero bytes and no delimiter.
noDelimiter(n) == [kind |-> "nodelimiter", n |-> n, bytes |-> Fill(n, 255)]

\* A header with the given version and length field, the payload, a CRC that
\* matches, and extra bytes behind it.
packetOf(version, msgType, lenField, payload, extra) ==
  appendCrc(<<version, msgType, 0, 0>> \o U16LE(lenField) \o payload) \o extra

FocusTx(c) == hostFrame(CMD_SET_FOCUS, I16LE(c))

GoodCmdTx == { NoTx, HmOnTx, HmOffTx, PingTx, FocusTx(3), FocusTx(-1) } \cup PeriodTx

\* Well-formed frames the dispatcher answers with EVT_ERR.
BadCmdTx ==
  { hostFrame(0, <<>>), hostFrame(6, <<>>), hostFrame(127, <<>>), hostFrame(255, <<1>>),
    hostFrame(200, <<1, 0>>),
    hostFrame(CMD_SET_HM, <<2>>), hostFrame(CMD_SET_HM, <<255>>),
    hostFrame(CMD_SET_HM, <<>>), hostFrame(CMD_SET_HM, <<2, 0>>), hostFrame(CMD_SET_HM, <<1, 0>>),
    hostFrame(CMD_SET_FOCUS, <<5>>), hostFrame(CMD_SET_FOCUS, <<5, 0, 0>>),
    hostFrame(CMD_SET_BIO_MS, <<>>), hostFrame(CMD_SET_BIO_MS, <<100>>),
    hostFrame(CMD_SET_BIO_MS, <<100, 0, 0>>),
    hostFrame(CMD_SET_TARGETS_MS, <<100>>), hostFrame(CMD_SET_TARGETS_MS, <<100, 0, 0, 0>>),
    hostFrame(CMD_PING, <<1>>) }

\* Packets the packet handler rejects: a wrong version, a length that differs
\* from the length field, fewer than 8 bytes, a CRC that does not match.
BadPackets ==
  { packetOf(2, CMD_SET_HM, 1, <<1>>, <<>>),
    packetOf(2, CMD_SET_HM, 1, <<1>>, <<9>>),
    packetOf(2, CMD_SET_BIO_MS, 5, <<60, 0>>, <<>>),
    packetOf(0, CMD_PING, 0, <<>>, <<7, 7>>),
    packetOf(1, CMD_SET_BIO_MS, 2, <<60, 0>>, <<9>>),
    packetOf(1, CMD_SET_HM, 9, <<1>>, <<>>),
    packetOf(1, CMD_SET_TARGETS_MS, 1, <<60, 0>>, <<>>),
    <<1>>, <<1, CMD_SET_HM>>, <<1, CMD_SET_BIO_MS, 0, 0, 2, 0, 60>>,
    <<2, CMD_SET_HM, 0>>,
    <<1, CMD_SET_HM, 0, 0, 1, 0, 1, 0, 0>>,
    <<2, CMD_SET_HM, 0, 0, 1, 0, 1, 0, 0>> }

BadPacketTx == { hostPacket(p) : p \in BadPackets }

\* Bytes that are no stuffed packet: a block that ends early, an empty
\* packet, a delimiter alone.
BadRawTx == { rawTx(<<5, 1, 0>>), rawTx(<<255, 1, 2, 3, 0>>), EmptyPacketTx, rawTx(<<0>>) }

\* RxEncodedCap bytes and more without a delimiter, the delimiter, and then
\* a command.
OverflowBy == {0, 1, 2, 20}

OverflowTx ==
  { chunk(chunk(noDelimiter(RxEncodedCap + k), rawTx(<<0>>)), tx) :
      k \in OverflowBy, tx \in {NoTx, HmOnTx, hostFrame(CMD_SET_BIO_MS, U16LE(70))} }

ChunkTx ==
  { chunk(HmOffTx, hostFrame(CMD_SET_BIO_MS, U16LE(70))),
    chunk(hostFrame(CMD_SET_TARGETS_MS, U16LE(10)), hostFrame(CMD_SET_HM, <<2>>)),
    chunk(hostFrame(127, <<>>), FocusTx(7)),
    chunk(PingTx, hostFrame(CMD_SET_BIO_MS, U16LE(50))),
    chunk(hostPacket(<<1, CMD_SET_HM>>), HmOffTx) }

CmdTx ==
  GoodCmdTx \cup BadCmdTx \cup BadPacketTx \cup BadRawTx \cup OverflowTx \cup ChunkTx
  \cup { truncated(HmOffTx, 5) }

\* What the first loop() polls.
ConfigTx ==
  { NoTx, HmOnTx, FocusTx(2), hostFrame(CMD_SET_BIO_MS, U16LE(2000)),
    hostFrame(CMD_SET_TARGETS_MS, U16LE(60)), truncated(PingTx, 4),
    noDelimiter(RxEncodedCap + 6) }

CmdRadar == { NoRadar, RestingRadar }

CmdDt == 300

CmdConfigLoop ==
  /\ clock = BootMs
  /\ \E h \in ConfigTx :
       \E polled \in {polledHost(h)} :
         \E r \in CmdRadar :
           loopAfterPoll(polled, h, r, CmdDt)

CmdLoop ==
  /\ clock = BootMs + CmdDt
  /\ \E h \in CmdTx :
       \E polled \in {polledHost(h)} :
         \E r \in CmdRadar :
           loopAfterPoll(polled, h, r, CmdDt)

NextCmd == setup \/ CmdConfigLoop \/ CmdLoop

SpecCmd == Init /\ [][NextCmd]_vars

\* The EVT_ACK frames among the frames o, and the fields of one.
AckFrames(o) == { i \in 1..Len(o) : o[i].msgType = EVT_ACK }
AckCmdId(f) == f.payload[1]
AckStatus(f) == f.payload[2]
AckValue(f) == f.payload[3] + f.payload[4] * U8 + f.payload[5] * U8 * U8 + f.payload[6] * U8 * U8 * U8

\* The value a period command requests, as the host encoded it.
Requested(tx) == tx.payload[1] + tx.payload[2] * U8

\* The period a command id configures.
PeriodOf(c, bio, targets) == IF c = CMD_SET_BIO_MS THEN bio ELSE targets

\* A well-formed period command that meets an empty accumulator.
PeriodCommand(tx, buf, overflow) ==
  /\ buf = <<>> /\ ~overflow
  /\ tx.kind = "frame" /\ tx.msgType \in PeriodCmds /\ Len(tx.payload) = 2

\* C14 -- Clamp acknowledgement: a well-formed SET_BIO_MS (SET_TARGETS_MS)
\* that requests v sets BIO_MS (TARGETS_MS) to max(v, 50), leaves the other
\* period alone, and is answered by exactly one EVT_ACK that carries the
\* command id, the applied period, and CLAMPED iff v < 50, else OK.
C14_ClampAck ==
  [][ (booted /\ PeriodCommand(hostTx', rxEncodedBuf, rxOverflow)) =>
        LET v == Requested(hostTx')
            c == hostTx'.msgType
        IN  /\ PeriodOf(c, BIO_MS', TARGETS_MS') = Max(v, 50)
            /\ PeriodOf(c, TARGETS_MS', BIO_MS') = PeriodOf(c, TARGETS_MS, BIO_MS)
            /\ Cardinality(AckFrames(out')) = 1
            /\ \A i \in AckFrames(out') :
                 /\ i = 1
                 /\ AckCmdId(out'[i]) = c
                 /\ AckValue(out'[i]) = Max(v, 50)
                 /\ AckStatus(out'[i]) = IF v < 50 THEN ACK_CLAMPED ELSE ACK_OK ]_vars

\* A SET_TARGETS_MS that requests 49 has been clamped to 50 after the first
\* command had set BIO_MS to 2000.
C14_Witness ==
  /\ Polled /\ PeriodCommand(hostTx, <<>>, FALSE)
  /\ AckFrames(out) # {}
  /\ Requested(hostTx) = 49 /\ hostTx.msgType = CMD_SET_TARGETS_MS /\ TARGETS_MS = 50
  /\ BIO_MS = 2000

\* C15 -- BIO_MS and TARGETS_MS lie in 50..65535 in every reachable state.
C15_PeriodsInRange ==
  /\ BIO_MS >= 50 /\ BIO_MS <= 65535
  /\ TARGETS_MS >= 50 /\ TARGETS_MS <= 65535

\* A request of 0 has been answered after a truncated frame was polled.
C15_Witness ==
  /\ Polled
  /\ hostTx.kind = "frame" /\ hostTx.msgType \in PeriodCmds /\ Len(hostTx.payload) = 2
  /\ Requested(hostTx) = 0
  /\ \E i \in 1..Len(disp) : disp[i].kind = "reject"

\* The configuration the commands set.
config == <<hostHeadMoving, forcedFocusCluster, BIO_MS, TARGETS_MS>>

\* The frames o that answer the decoder log d: every entry of the log wrote
\* one frame, before any telemetry.
Responses(o, d) == SubSeq(o, 1, Len(d))

\* The poll answered, and with EVT_ERR only.
AllErr(o, d) ==
  /\ Len(d) >= 1 /\ Len(o) >= Len(d)
  /\ \A i \in 1..Len(d) : o[i].msgType = EVT_ERR

\* The payload length of each command.
PayloadLenOf(c) ==
  CASE c = CMD_SET_HM -> 1
    [] c = CMD_SET_FOCUS -> 2
    [] c = CMD_SET_BIO_MS -> 2
    [] c = CMD_SET_TARGETS_MS -> 2
    [] c = CMD_PING -> 0

KnownCmds == {CMD_SET_HM, CMD_SET_FOCUS, CMD_SET_BIO_MS, CMD_SET_TARGETS_MS, CMD_PING}

\* A well-formed frame that is in error as a command: its type is unknown,
\* its payload has the wrong length, or it is a SET_HM of a value other than
\* 0 and 1.  The length is looked at before the value.
SemanticError(tx) ==
  /\ tx.kind = "frame"
  /\ \/ tx.msgType \notin KnownCmds
     \/ Len(tx.payload) # PayloadLenOf(tx.msgType)
     \/ tx.msgType = CMD_SET_HM /\ tx.payload[1] \notin {0, 1}

ExpectedErr(tx) ==
  IF tx.msgType \notin KnownCmds THEN ERR_UNKNOWN_CMD
  ELSE IF Len(tx.payload) # PayloadLenOf(tx.msgType) THEN ERR_BAD_LEN
  ELSE ERR_BAD_VALUE

\* C16 -- Error leaves configuration unchanged: a poll that is answered with
\* EVT_ERR only leaves hostHeadMoving, forcedFocusCluster, BIO_MS and
\* TARGETS_MS as they were; a well-formed frame of an unknown type is answered
\* UNKNOWN_CMD with cmd_id = msg_type, a known command with a payload of the
\* wrong length BAD_LEN (whatever the payload holds), a SET_HM of a value
\* other than 0 and 1 BAD_VALUE.
C16_ErrLeavesConfig ==
  [][ booted =>
        /\ AllErr(out', disp') => config' = config
        /\ (rxEncodedBuf = <<>> /\ ~rxOverflow /\ SemanticError(hostTx')) =>
             /\ Len(disp') = 1
             /\ AllErr(out', disp')
             /\ out'[1].payload = <<hostTx'.msgType, ExpectedErr(hostTx')>> ]_vars

\* A SET_HM of two bytes, the first neither 0 nor 1, has been answered BAD_LEN
\* while the head-moving flag set by the first command stands.
C16_Witness ==
  /\ Polled /\ hostTx.kind = "frame"
  /\ hostTx.msgType = CMD_SET_HM /\ hostTx.payload = <<2, 0>>
  /\ AllErr(out, disp)
  /\ out[1].payload = <<CMD_SET_HM, ERR_BAD_LEN>>
  /\ hostHeadMoving

\* The accumulator is empty and the transmission polled next is one stuffed
\* packet.
PacketPolled(tx, buf, overflow) == buf = <<>> /\ ~overflow /\ tx.kind = "packet"

\* The length of packet p is 6 + payload_len + 2 (a packet too short to hold
\* the length field has no such length).
LengthOk(p) == Len(p) >= 8 /\ Len(p) = 6 + (p[5] + p[6] * U8) + 2

\* The error of the first check that fails when the checks are made in the
\* order length, version, CRC (0 when none fails).
FirstFailing(p) ==
  IF ~LengthOk(p) THEN ERR_BAD_LEN
  ELSE IF p[1] # PROTO_VERSION THEN ERR_UNSUPPORTED_VERSION
  ELSE IF appendCrc(SubSeq(p, 1, Len(p) - 2)) # p THEN ERR_CRC_FAIL
  ELSE 0

\* C17 -- Decoder check order: a COBS-valid packet is checked for its length,
\* then its version, then its CRC, and the first check that fails gives the
\* error code; a packet of the wrong length and a version other than 1 is
\* answered BAD_LEN.
C17_CheckOrder ==
  [][ (booted /\ PacketPolled(hostTx', rxEncodedBuf, rxOverflow)
       /\ FirstFailing(hostTx'.packet) # 0) =>
        /\ AllErr(out', disp')
        /\ Len(disp') = 1
        /\ out'[1].payload[2] = FirstFailing(hostTx'.packet) ]_vars

\* Bytes cobsDecode does not accept: a block that announces more bytes than
\* follow.
CobsInvalid(tx) == tx \in {rawTx(<<5, 1, 0>>), rawTx(<<255, 1, 2, 3, 0>>)}

\* More than RxEncodedCap bytes, then the delimiter, then nothing.
OverflowOnly(tx) ==
  /\ tx.kind = "chunk" /\ tx.second = NoTx
  /\ tx.first.kind = "chunk" /\ tx.first.first.kind = "nodelimiter"
  /\ tx.first.first.n > RxEncodedCap

\* C18 -- BAD_LEN attribution: bytes that fail COBS decoding or overflow the
\* accumulator are answered EVT_ERR{0, BAD_LEN}; a COBS-valid packet of
\* version 1 whose length is not 6 + payload_len + 2, a packet of fewer than 8
\* bytes that holds a msg_type byte included, is answered
\* EVT_ERR{msg_type, BAD_LEN}.
C18_BadLenAttribution ==
  [][ (booted /\ rxEncodedBuf = <<>> /\ ~rxOverflow) =>
        /\ (CobsInvalid(hostTx') \/ OverflowOnly(hostTx')) =>
             /\ Len(out') >= 1 /\ Len(disp') = 1
             /\ out'[1].msgType = EVT_ERR
             /\ out'[1].payload = <<0, ERR_BAD_LEN>>
        /\ (hostTx'.kind = "packet" /\ Len(hostTx'.packet) >= 2
            /\ hostTx'.packet[1] = PROTO_VERSION /\ ~LengthOk(hostTx'.packet)) =>
             /\ Len(out') >= 1 /\ Len(disp') = 1
             /\ out'[1].msgType = EVT_ERR
             /\ out'[1].payload = <<hostTx'.packet[2], ERR_BAD_LEN>> ]_vars

\* The decoder log entries of the overflow report and of a frame handed on.
OverflowReport == [kind |-> "reject", cmdId |-> 0, errCode |-> ERR_BAD_LEN]
HandedOn(tx) == [kind |-> "cmd", msgType |-> tx.msgType, payload |-> tx.payload]

\* What the poll of one well-formed frame, met by an empty accumulator,
\* leaves in the decoder log.
LogOf(tx) == IF tx.kind = "frame" THEN <<HandedOn(tx)>> ELSE <<>>

\* More than RxEncodedCap bytes without a delimiter, the delimiter, and the
\* transmission that follows it.
OverflowThen(tx) ==
  /\ tx.kind = "chunk" /\ tx.second.kind \in {"none", "frame"}
  /\ tx.first.kind = "chunk" /\ tx.first.first.kind = "nodelimiter"
  /\ tx.first.first.n > RxEncodedCap
  /\ tx.first.second = rawTx(<<0>>)

\* C19 -- Inbound overflow: once more than RxEncodedCap bytes have arrived
\* without a delimiter the flag is set and further non-zero bytes are dropped;
\* the next 0x00 is answered by exactly one EVT_ERR{0, BAD_LEN}, hands nothing
\* on, changes no configuration and clears flag and accumulator; the
\* well-formed frame that follows is handed on as it was sent.
C19_InboundOverflow ==
  [][ booted =>
        /\ Len(rxEncodedBuf') <= RxEncodedCap
        /\ (rxEncodedBuf = <<>> /\ ~rxOverflow /\ hostTx'.kind = "nodelimiter"
            /\ hostTx'.n > RxEncodedCap) =>
             rxOverflow' /\ disp' = <<>> /\ config' = config
        /\ (rxEncodedBuf = <<>> /\ ~rxOverflow /\ OverflowThen(hostTx')) =>
             /\ disp' = <<OverflowReport>> \o LogOf(hostTx'.second)
             /\ out'[1] = [msgType |-> EVT_ERR, seq |-> txSeq, payload |-> <<0, ERR_BAD_LEN>>]
             /\ ~rxOverflow' /\ rxEncodedBuf' = <<>>
             /\ hostTx'.second = NoTx => config' = config
        /\ (rxOverflow /\ hostTx'.kind \in {"none", "truncated"}) =>
             rxOverflow' /\ disp' = <<>> /\ config' = config
        /\ (rxOverflow /\ hostTx'.kind = "frame") =>
             /\ disp' = <<OverflowReport>>
             /\ out'[1] = [msgType |-> EVT_ERR, seq |-> txSeq, payload |-> <<0, ERR_BAD_LEN>>]
             /\ ~rxOverflow' /\ rxEncodedBuf' = <<>>
             /\ config' = config
        /\ (rxOverflow /\ hostTx'.kind = "chunk" /\ hostTx'.first.kind = "frame"
            /\ hostTx'.second.kind = "frame") =>
             /\ disp' = <<OverflowReport, HandedOn(hostTx'.second)>>
             /\ ~rxOverflow' /\ rxEncodedBuf' = <<>> ]_vars

\* The first loop() left the overflow flag set; the second polled a SET_HM and
\* a SET_BIO_MS of 70 in one chunk: the first was dropped and reported, the
\* second applied.
C19_Witness ==
  /\ Polled
  /\ hostTx = chunk(HmOffTx, hostFrame(CMD_SET_BIO_MS, U16LE(70)))
  /\ disp = <<OverflowReport, HandedOn(hostTx.second)>>
  /\ BIO_MS = 70
  /\ ~rxOverflow /\ rxEncodedBuf = <<>>

\* A decoder log entry of a configuration command that was accepted.
AcceptedConfig(e) ==
  /\ e.kind = "cmd"
  /\ \/ e.msgType = CMD_SET_HM /\ e.payload \in {<<0>>, <<1>>}
     \/ e.msgType \in {CMD_SET_FOCUS, CMD_SET_BIO_MS, CMD_SET_TARGETS_MS} /\ Len(e.payload) = 2

ResponseTypes == {EVT_ACK, EVT_ERR, EVT_PONG}
TelemetryTypes == {EVT_STATE, EVT_TARGETS, EVT_BIO}

\* C20 -- Command/ack causal order: the frames one loop() writes are the
\* answers of its poll, one for each packet the decoder handled and in that
\* order, and only then telemetry; the answer to an accepted configuration
\* command is its EVT_ACK; every EVT_STATE written carries the head-moving
\* flag as the poll left it and follows the answers.
C20_AckBeforeTelemetry ==
  Polled =>
    /\ Len(out) >= Len(disp)
    /\ \A i \in 1..Len(disp) :
         /\ out[i].msgType \in ResponseTypes
         /\ AcceptedConfig(disp[i]) =>
              /\ out[i].msgType = EVT_ACK
              /\ AckCmdId(out[i]) = disp[i].msgType
    /\ \A i \in (Len(disp) + 1)..Len(out) : out[i].msgType \in TelemetryTypes
    /\ \A i \in 1..(Len(out) - 1) : out[i + 1].seq = (out[i].seq + 1) % U16
    /\ \A i \in StateFrames :
         /\ i > Len(disp)
         /\ out[i].payload[7] = IF hostHeadMoving THEN 1 ELSE 0

\* One poll has accepted a SET_HM and a SET_BIO_MS of 70; the loop then wrote
\* EVT_STATE with the new flag and, less than BIO_MS_DEFAULT after power-up,
\* an EVT_BIO that only the new period made due.
C20_Witness ==
  /\ Polled
  /\ hostTx = chunk(HmOffTx, hostFrame(CMD_SET_BIO_MS, U16LE(70)))
  /\ Len(disp) = 2 /\ AcceptedConfig(disp[1]) /\ AcceptedConfig(disp[2])
  /\ frame.processed /\ frame.now < BIO_MS_DEFAULT
  /\ StateFrames # {} /\ BioFrames # {}

\* The state of the fusion engine: last-good values, presence, streaks,
\* single-target tracking, emit timestamps, the snapshot of the last
\* EVT_STATE.
engine ==
  <<lastDist, lastBR, lastHR, lastPresenceMs, absentStreak, vitalsStreak,
    humanStableStreak, lastSingleTargetMs, seenSingleTarget, lastTargetsEmitMs,
    lastBioEmitMs, lastStateEmitMs, prevS, prevP, prevHM, prevN>>

\* C21 -- Radar timeout is a no-op: a loop() in which the radar delivers no
\* frame leaves the engine state as it was and writes no telemetry frame; the
\* bytes on Serial are decoded all the same: a well-formed frame that meets an
\* empty accumulator is handed on and answered, and an accepted SET_HM is
\* applied.
C21_TimeoutNoOp ==
  [][ (booted /\ ~radar'.present) =>
        /\ engine' = engine
        /\ frame' = NoFrame
        /\ \A i \in 1..Len(out') : out'[i].msgType \in ResponseTypes
        /\ (rxEncodedBuf = <<>> /\ ~rxOverflow /\ hostTx'.kind = "frame") =>
             /\ disp' = <<HandedOn(hostTx')>>
             /\ Len(out') = 1
             /\ hostTx' = HmOnTx => hostHeadMoving' /\ out'[1].msgType = EVT_ACK
             /\ hostTx' = HmOffTx => ~hostHeadMoving' /\ out'[1].msgType = EVT_ACK ]_vars

\* After a first loop() that processed a resting subject and set the
\* head-moving flag, a loop() without a radar frame has cleared the flag and
\* acknowledged, with the engine state standing.
C21_Witness ==
  /\ Polled /\ ~radar.present /\ frame = NoFrame
  /\ hostTx = HmOffTx /\ ~hostHeadMoving /\ prevHM
  /\ AckFrames(out) = {1}
  /\ lastDist = 80 /\ lastPresenceMs = BootMs + CmdDt

(***************************************************************************)
(* SpecClass: the classifier and the emission schedule.  ClassWarmup       *)
(* frames of one kind -- a resting subject or nothing at all -- arrive     *)
(* ClassDt ms apart; ClassLoops loops follow, each with any radar frame of *)
(* ClassRadar (or none) and a head-moving command or none.                 *)
(***************************************************************************)
ClassWarmup == 8
ClassLoops == 2
ClassDt == 200

\* A late loop(): the gap after which every stream is periods overdue.
ClassGapDt == 2400

nearTarget == [cluster_index |-> 4, x_point |-> 0, y_point |-> 0, dop_index |-> -9]
farTarget == [cluster_index |-> 3, x_point |-> 3, y_point |-> 0, dop_index |-> 0]

ClassRadar ==
  { NoRadar, EmptyRadar, RestingRadar, LostTargetRadar, TwoTargetRadar,
    radarFrame(TRUE, <<fastTarget>>, TRUE, 80, TRUE, 14, TRUE, 72),
    radarFrame(TRUE, <<nearTarget, farTarget>>, TRUE, 80, TRUE, 14, TRUE, 72),
    radarFrame(TRUE, <<slowTarget>>, TRUE, 200, TRUE, 14, TRUE, 72),
    radarFrame(TRUE, <<slowTarget>>, TRUE, 80, TRUE, 50, TRUE, 72) }

ClassWarmupLoop ==
  /\ hist.loops < ClassWarmup
  /\ \E r \in {RestingRadar, EmptyRadar} :
       /\ hist.loops > 0 => r = radar
       /\ loop(NoTx, r, ClassDt)

ClassLoop ==
  /\ hist.loops >= ClassWarmup
  /\ hist.loops < ClassWarmup + ClassLoops
  /\ \E h \in RestHostTx :
       \E polled \in {polledHost(h)} :
         \E r \in ClassRadar : \E dt \in {ClassDt, ClassGapDt} :
           loopAfterPoll(polled, h, r, dt)

NextClass == setup \/ ClassWarmupLoop \/ ClassLoop

SpecClass == Init /\ [][NextClass]_vars

\* The focus target of the last processed frame moves at MOVING_CM_S or more.
FocusMoving ==
  /\ frame.focus.valid /\ isfinite(frame.focus.speed_cm_s)
  /\ Abs(frame.focus.speed_cm_s) >= MOVING_CM_S

\* The distance the last processed frame used lies in the near zone.
InNearZone ==
  /\ isfinite(frame.dist_cm)
  /\ frame.dist_cm >= NEAR_MIN_DIST_CM /\ frame.dist_cm <= NEAR_MAX_DIST_CM

\* C22 -- Entering RESTING_VITALS: a processed frame classified
\* RESTING_VITALS has, on that frame, vitalsStreak >= VITALS_CONFIRM, a
\* distance in the near zone, head not moving, a focus target slower than
\* MOVING_CM_S, presence less than ABSENT_HOLD_MS ago and at most one target.
C22_RestingRequires ==
  (frame.processed /\ frame.s = RESTING_VITALS) =>
    /\ vitalsStreak >= VITALS_CONFIRM
    /\ InNearZone
    /\ ~frame.headMoving /\ ~hostHeadMoving
    /\ ~FocusMoving
    /\ frame.now - lastPresenceMs < ABSENT_HOLD_MS
    /\ frame.nTargets <= 1

\* A frame without a target has been classified RESTING_VITALS under the
\* fallback lock: its presence rests on the human flag alone.
C22_Witness ==
  /\ frame.processed /\ frame.s = RESTING_VITALS
  /\ frame.nTargets = 0 /\ frame.s0 = RESTING_VITALS

\* The first rule that matches, in the order NO_TARGET, MULTI_TARGET, MOVING,
\* RESTING_VITALS, STILL_NEAR, PRESENT_FAR, read off the values the last
\* processed frame left.
FirstMatching ==
  IF frame.now - lastPresenceMs >= ABSENT_HOLD_MS /\ absentStreak >= ABSENT_CONFIRM
  THEN NO_TARGET
  ELSE IF frame.nTargets > 1 THEN MULTI_TARGET
  ELSE IF frame.headMoving \/ FocusMoving THEN MOVING
  ELSE IF InNearZone /\ vitalsStreak >= VITALS_CONFIRM THEN RESTING_VITALS
  ELSE IF InNearZone THEN STILL_NEAR
  ELSE PRESENT_FAR

\* C23 -- Classifier priority: the state of a processed frame is that of the
\* first matching rule; a frame with more than one target is MULTI_TARGET
\* whatever head and focus target do, and a frame with at most one target and
\* head moving is MOVING unless it is NO_TARGET.
C23_ClassifierPriority ==
  frame.processed =>
    /\ frame.s = FirstMatching
    /\ frame.nTargets > 1 => frame.s = MULTI_TARGET
    /\ (frame.nTargets <= 1 /\ frame.headMoving /\ frame.s # NO_TARGET) => frame.s = MOVING

\* A frame with two targets, the nearer one moving, processed while the head
\* moves, has been classified MULTI_TARGET.
C23_Witness ==
  /\ frame.processed /\ frame.nTargets = 2
  /\ frame.headMoving /\ FocusMoving
  /\ frame.s = MULTI_TARGET

FallbackLocked ==
  /\ frame.nTargets = 0
  /\ seenSingleTarget /\ frame.now - lastSingleTargetMs <= TARGET_LOSS_GRACE_MS
  /\ humanStableStreak >= HUMAN_STABLE_FALLBACK_CONFIRM

BrValid == radar.br_ok /\ isfinite(frame.br) /\ frame.br >= BR_MIN /\ frame.br <= BR_MAX
HrValid == radar.hr_ok /\ isfinite(frame.hr) /\ frame.hr >= HR_MIN /\ frame.hr <= HR_MAX

\* C25 -- After every processed radar frame, vitalsStreak > 0 implies that the
\* frame passed the vitals gate (head not moving; one target or the fallback
\* lock), had br_valid and hr_valid, and was not classified NO_TARGET,
\* MULTI_TARGET or MOVING.
C25_StreakImpliesValid ==
  (frame.processed /\ vitalsStreak > 0) =>
    /\ ~frame.headMoving
    /\ frame.nTargets = 1 \/ FallbackLocked
    /\ BrValid /\ HrValid
    /\ frame.s \notin {NO_TARGET, MULTI_TARGET, MOVING}

\* A frame that passed the gate with fresh in-range vitals and found a streak
\* has been classified MOVING for its target's speed, and left no streak.
C25_Witness ==
  /\ frame.processed /\ frame.streak0 >= VITALS_CONFIRM
  /\ ~frame.headMoving /\ frame.nTargets = 1 /\ FreshVitals
  /\ frame.s = MOVING
  /\ vitalsStreak = 0

\* (state, pose, head_moving, n_targets) of the last processed frame.
FrameTuple == <<frame.s, frame.p, IF frame.headMoving THEN 1 ELSE 0, frame.nTargets>>

\* C26 -- State emission: a processed frame writes an EVT_STATE if and only if
\* its (state, pose, head_moving, n_targets) differs from the tuple the last
\* EVT_STATE carried (there being none counts as differing) or more than 1000
\* ms have passed since that EVT_STATE; the frame written carries the frame's
\* tuple; a tuple that differs from the previous processed frame's is written
\* in the frame where it differs.
C26_StateEmission ==
  frame.processed =>
    /\ StateFrames # {} <=>
         (frame.stateTuple0 # FrameTuple \/ frame.now - frame.stateMs0 > 1000)
    /\ \A i \in StateFrames : stateTupleOf(out[i]) = FrameTuple
    /\ (frame.lastTuple0 # <<>> /\ frame.lastTuple0 # FrameTuple) => StateFrames # {}

\* An EVT_STATE has been written for an unchanged tuple, on the first frame
\* later than 1000 ms after the last EVT_STATE.
C26_Witness ==
  /\ frame.processed /\ StateFrames # {}
  /\ frame.stateTuple0 = FrameTuple /\ frame.lastTuple0 = FrameTuple
  /\ frame.now - frame.stateMs0 > 1000
  /\ frame.now - frame.stateMs0 - frame.sinceLast <= 1000

\* The EVT_TARGETS frames in out.
TargetsFrames == { i \in 1..Len(out) : out[i].msgType = EVT_TARGETS }

\* C27 -- No burst emission: one loop() writes at most one EVT_TARGETS, at
\* most one EVT_STATE and at most one EVT_BIO, in that order, however long
\* ago the last one of its type was written; the period of a stream restarts
\* at the millis() of the frame that wrote to it.
C27_NoBurst ==
  Polled =>
    /\ Cardinality(TargetsFrames) <= 1
    /\ Cardinality(StateFrames) <= 1
    /\ Cardinality(BioFrames) <= 1
    /\ \A i \in TargetsFrames : \A j \in StateFrames \cup BioFrames : i < j
    /\ \A i \in StateFrames : \A j \in BioFrames : i < j
    /\ (frame.processed /\ TargetsFrames # {}) => lastTargetsEmitMs = frame.now
    /\ (frame.processed /\ StateFrames # {}) => lastStateEmitMs = frame.now
    /\ (frame.processed /\ BioFrames # {}) => lastBioEmitMs = frame.now

\* A frame has written all three, its EVT_BIO two periods or more and its
\* EVT_TARGETS four periods or more after the last one.
C27_Witness ==
  /\ frame.processed
  /\ TargetsFrames # {} /\ StateFrames # {} /\ BioFrames # {}
  /\ frame.now - frame.bioMs0 >= 2 * BIO_MS
  /\ frame.now - frame.targetsMs0 >= 4 * TARGETS_MS

\* C28 -- Cadenced streams: a processed frame writes an EVT_BIO if and only if
\* now - last_bio_ms >= BIO_MS, whatever its state and gating; it writes an
\* EVT_TARGETS if and only if it has a target and now - last_targets_ms >=
\* TARGETS_MS.
C28_Cadence ==
  frame.processed =>
    /\ BioFrames # {} <=> frame.now - frame.bioMs0 >= BIO_MS
    /\ TargetsFrames # {} <=>
         (frame.nTargets > 0 /\ frame.now - frame.targetsMs0 >= TARGETS_MS)

\* An EVT_BIO has been written from a frame classified NO_TARGET while the
\* head moves, and no EVT_TARGETS although its period had passed.
C28_Witness ==
  /\ frame.processed /\ frame.s = NO_TARGET /\ frame.headMoving
  /\ BioFrames # {} /\ TargetsFrames = {}
  /\ frame.now - frame.targetsMs0 >= TARGETS_MS

(***************************************************************************)
(* Focus selection.  SpecFocus runs two loop()s 300 ms apart, each with a  *)
(* SET_FOCUS command or none; the radar has a frame of up to three targets *)
(* for the second.                                                         *)
(***************************************************************************)
FocusDt == 300

\* A second target of cluster 1, as far away as slowTarget.
twinTarget == [cluster_index |-> 1, x_point |-> 1, y_point |-> 0, dop_index |-> 0]
\* A target whose x_point is not finite.
nanTarget == [cluster_index |-> 6, x_point |-> NaN, y_point |-> 0, dop_index |-> 0]
\* A target two million kilometres away: a finite range above 1e9f.
remoteTarget == [cluster_index |-> 5, x_point |-> 2000000000, y_point |-> 0, dop_index |-> 0]

FocusRadar ==
  LET T == { slowTarget, fastTarget, twinTarget, nanTarget, remoteTarget }
  IN  { radarFrame(TRUE, l, TRUE, 80, TRUE, 14, TRUE, 72) :
          l \in {<<>>} \cup { <<a>> : a \in T } \cup { <<a, b>> : a, b \in T }
                \cup { <<a, b, c>> : a, b, c \in T } }

\* forcedFocusCluster stays -1 or becomes -2, 1 (slowTarget, twinTarget),
\* 6 (nanTarget) or 7 (no target).
FocusLoop ==
  /\ booted
  /\ clock <= BootMs + FocusDt
  /\ \E h \in {NoTx} \cup { FocusTx(c) : c \in {-2, 1, 6, 7} } :
       \E polled \in {polledHost(h)} :
         \E r \in IF clock = BootMs THEN {NoRadar} ELSE FocusRadar :
           loopAfterPoll(polled, h, r, FocusDt)

NextFocus == setup \/ FocusLoop

SpecFocus == Init /\ [][NextFocus]_vars

\* The targets of the frame of the last loop() with a finite range, and the
\* nearest of them: the earliest of those with the smallest range.
FiniteTargets ==
  { i \in 1..Len(radar.targets) : isfinite(targetRange(radar.targets[i])) }

Nearest ==
  CHOOSE i \in FiniteTargets :
    \A j \in FiniteTargets :
      \/ targetRange(radar.targets[i]) < targetRange(radar.targets[j])
      \/ (targetRange(radar.targets[i]) = targetRange(radar.targets[j]) /\ i <= j)

\* The targets of the frame in the forced cluster.
ForcedTargets ==
  { i \in 1..Len(radar.targets) : radar.targets[i].cluster_index = forcedFocusCluster }

C30_NearestFocus ==
  (frame.processed /\ forcedFocusCluster < 0) =>
    /\ frame.focus.valid <=> FiniteTargets # {}
    /\ frame.focus.valid =>
         /\ frame.focus.index + 1 \in 1..Len(radar.targets)
         /\ frame.focus.index + 1 = Nearest
         /\ frame.focus = focusOf(radar.targets, frame.focus.index + 1)

\* C31 -- Streak saturation: vitalsStreak and humanStableStreak stay at 255
\* once they have reached it, so a frame with valid vitals, near, not moving
\* and at most one target that follows a RESTING_VITALS frame is
\* RESTING_VITALS again, however long the run.
C31_StreakSaturates ==
  /\ vitalsStreak <= 255 /\ humanStableStreak <= 255
  /\ hist.singleRun > 0 => humanStableStreak >= Min(255, hist.singleRun)
  /\ (/\ frame.processed /\ frame.s0 = RESTING_VITALS
      /\ frame.vitals_valid /\ frame.near /\ ~frame.moving /\ frame.nTargets <= 1)
     => /\ frame.s = RESTING_VITALS
        /\ vitalsStreak = Min(255, frame.streak0 + 1)

\* The run of resting frames is longer than 256 and its last frame, which
\* found both streaks at 255, is RESTING_VITALS.
C31_Witness ==
  /\ frame.processed /\ hist.goodRun > 256 /\ hist.singleRun > 256
  /\ frame.streak0 = 255 /\ frame.s0 = RESTING_VITALS
  /\ frame.s = RESTING_VITALS /\ vitalsStreak = 255 /\ humanStableStreak = 255

\* The decoder log d holds a command of type c.
HandsOn(d, c) == \E i \in 1..Len(d) : d[i].kind = "cmd" /\ d[i].msgType = c

\* A well-formed command the dispatcher accepts.
AcceptedCmd(tx) == tx.kind = "frame" /\ tx.msgType \in KnownCmds /\ ~SemanticError(tx)

\* C32 -- Command frame effect: the bytes a loop() polls change no engine
\* state; hostHeadMoving, forcedFocusCluster, BIO_MS and TARGETS_MS change
\* only in a poll that hands on a command of the field's own type; an accepted
\* command that meets an empty accumulator leaves the three other fields (PING
\* all four) as they were, and SET_HM and SET_FOCUS are acknowledged OK with
\* the value stored.
C32_CommandEffect ==
  [][ booted =>
        /\ ~radar'.present => engine' = engine
        /\ hostHeadMoving' # hostHeadMoving => HandsOn(disp', CMD_SET_HM)
        /\ forcedFocusCluster' # forcedFocusCluster => HandsOn(disp', CMD_SET_FOCUS)
        /\ BIO_MS' # BIO_MS => HandsOn(disp', CMD_SET_BIO_MS)
        /\ TARGETS_MS' # TARGETS_MS => HandsOn(disp', CMD_SET_TARGETS_MS)
        /\ (rxEncodedBuf = <<>> /\ ~rxOverflow /\ AcceptedCmd(hostTx')) =>
             LET c == hostTx'.msgType
                 v == hostTx'.payload
             IN  /\ c # CMD_SET_HM => hostHeadMoving' = hostHeadMoving
                 /\ c # CMD_SET_FOCUS => forcedFocusCluster' = forcedFocusCluster
                 /\ c # CMD_SET_BIO_MS => BIO_MS' = BIO_MS
                 /\ c # CMD_SET_TARGETS_MS => TARGETS_MS' = TARGETS_MS
                 /\ c = CMD_SET_HM =>
                      /\ hostHeadMoving' = (v[1] = 1)
                      /\ out'[1].msgType = EVT_ACK
                      /\ out'[1].payload = <<c, ACK_OK, v[1], 0, 0, 0>>
                 /\ c = CMD_SET_FOCUS =>
                      /\ forcedFocusCluster' = readI16LE(v, 1)
                      /\ out'[1].msgType = EVT_ACK
                      /\ out'[1].payload =
                           <<c, ACK_OK, v[1], v[2]>>
                           \o (IF v[2] >= 128 THEN <<255, 255>> ELSE <<0, 0>>) ]_vars

\* A SET_FOCUS of -1 has returned the focus to auto and is acknowledged with
\* -1 in 32 bits, while the BIO_MS the first command set stands.
C32_Witness ==
  /\ Polled /\ hostTx = FocusTx(-1) /\ forcedFocusCluster = -1
  /\ BIO_MS = 2000 /\ TARGETS_MS = TARGETS_MS_DEFAULT /\ ~hostHeadMoving
  /\ out[1].msgType = EVT_ACK
  /\ out[1].payload = <<CMD_SET_FOCUS, ACK_OK, 255, 255, 255, 255>>

(***************************************************************************)
(* SpecAbsent: an empty room.  AbsentWarmup frames without any reading     *)
(* arrive, then for AbsentLoops loop()s the room stays empty, a subject    *)
(* appears, or the radar times out.                                        *)
(***************************************************************************)
AbsentWarmup == 252
AbsentLoops == 6

AbsentWarmupLoop ==
  /\ hist.loops < AbsentWarmup
  /\ loop(NoTx, EmptyRadar, HoldDt)

AbsentLoop ==
  /\ hist.loops >= AbsentWarmup
  /\ hist.loops < AbsentWarmup + AbsentLoops
  /\ \E r \in {EmptyRadar, RestingRadar, NoRadar} :
       \E polled \in {polledHost(NoTx)} :
         loopAfterPoll(polled, NoTx, r, HoldDt)

NextAbsent == setup \/ AbsentWarmupLoop \/ AbsentLoop

SpecAbsent == Init /\ [][NextAbsent]_vars

\* C33 -- Absence is sticky: a processed frame without a presence signal
\* that follows, in a run of such frames, a frame classified NO_TARGET is
\* classified NO_TARGET too, however long the run.
C33_AbsenceSticky ==
  (frame.processed /\ hist.absentRun >= 2 /\ frame.s0 = NO_TARGET) =>
    frame.s = NO_TARGET

\* C34 -- No presence before first detection: while no processed frame has
\* carried a presence signal, every processed frame is classified NO_TARGET
\* with pose UNKNOWN.
C34_AbsentFromBoot ==
  (frame.processed /\ ~hist.present) => (frame.s = NO_TARGET /\ frame.p = UNKNOWN)

\* The delimiters among the bytes b that end a non-empty run of bytes, when
\* the bytes meet an accumulator that is pending (not empty, or overflowed)
\* or not.
ClosingDelimiters(b, pending) ==
  { i \in 1..Len(b) : b[i] = 0 /\ (IF i = 1 THEN pending ELSE b[i - 1] # 0) }

\* The EVT_ACK, EVT_PONG and EVT_ERR frames among the frames o.
ResponseFrames(o) == { i \in 1..Len(o) : o[i].msgType \in ResponseTypes }

\* C35 -- One response per inbound frame: a poll writes one EVT_ACK, EVT_PONG
\* or EVT_ERR for each delimiter that ends a non-empty run of bytes, in the
\* order of the runs and ahead of everything else, and none for a delimiter
\* that meets an empty accumulator; a well-formed PING with an empty payload
\* is answered by one EVT_PONG, before the bytes behind it are looked at.
C35_OneResponse ==
  [][ booted =>
        LET closing == ClosingDelimiters(hostTx'.bytes, rxEncodedBuf # <<>> \/ rxOverflow)
            fresh == rxEncodedBuf = <<>> /\ ~rxOverflow
        IN  /\ ResponseFrames(out') = 1..Cardinality(closing)
            /\ Len(disp') = Cardinality(closing)
            /\ (fresh /\ hostTx' = PingTx) =>
                 /\ ResponseFrames(out') = {1}
                 /\ out'[1].msgType = EVT_PONG
            /\ (fresh /\ hostTx'.kind = "chunk" /\ hostTx'.first = PingTx) =>
                 out'[1].msgType = EVT_PONG ]_vars

\* A PING and a SET_BIO_MS read by one poll have been answered by one
\* EVT_PONG and then one EVT_ACK.
C35_Witness ==
  /\ Polled /\ hostTx = chunk(PingTx, hostFrame(CMD_SET_BIO_MS, U16LE(50)))
  /\ ResponseFrames(out) = {1, 2}
  /\ out[1].msgType = EVT_PONG /\ out[2].msgType = EVT_ACK

\* The position of the last delimiter among the bytes b, 0 when there is none.
LastDelimiter(b) ==
  IF \A i \in 1..Len(b) : b[i] # 0 THEN 0
  ELSE CHOOSE i \in 1..Len(b) : b[i] = 0 /\ \A j \in (i + 1)..Len(b) : b[j] # 0

\* C36 -- Decoder buffer invariant and resynchronisation: the accumulator
\* never holds more than RxEncodedCap bytes and the overflow flag is set only
\* while it is full; once a poll has read a delimiter, whatever came before
\* it, the accumulator holds the bytes that followed the last delimiter and
\* nothing else (none, with the flag clear, when the delimiter came last).
C36_BufferInvariant ==
  /\ Len(rxEncodedBuf) <= RxEncodedCap
  /\ rxOverflow => Len(rxEncodedBuf) = RxEncodedCap
  /\ (Polled /\ LastDelimiter(hostTx.bytes) > 0) =>
       LET b == hostTx.bytes
           rest == SubSeq(b, LastDelimiter(b) + 1, Len(b))
       IN  /\ rxEncodedBuf = SubSeq(rest, 1, Min(Len(rest), RxEncodedCap))
           /\ rxOverflow <=> Len(rest) > RxEncodedCap
           /\ b[Len(b)] = 0 => (rxEncodedBuf = <<>> /\ ~rxOverflow)

\* The second loop() has polled bytes that fail COBS decoding and their
\* delimiter: one EVT_ERR, the accumulator empty and the flag clear.
C36_Witness ==
  /\ Polled /\ hostTx = rawTx(<<255, 1, 2, 3, 0>>)
  /\ hist.loops = 2 /\ out[1].msgType = EVT_ERR /\ Len(disp) = 1
  /\ rxEncodedBuf = <<>> /\ ~rxOverflow
  /\ BIO_MS = BIO_MS_DEFAULT /\ TARGETS_MS = TARGETS_MS_DEFAULT /\ ~hostHeadMoving
  /\ forcedFocusCluster = -1 /\ ~radar.present /\ hist.written = 2

\* The br_new and hr_new bytes and the two values of an EVT_BIO frame in out.
BioBrNew(i) == out[i].payload[7]
BioHrNew(i) == out[i].payload[8]
BioBrCenti(i) == readU16LE(out[i].payload, 9)
BioHrCenti(i) == readU16LE(out[i].payload, 11)

C38_FallbackBounded ==
  frame.processed =>
    /\ (frame.vitals_allowed /\ frame.nTargets = 0) =>
         /\ hist.singleMs >= 0
         /\ frame.now - hist.singleMs <= 1200
         /\ hist.humanRun >= 3
    /\ frame.vitals_allowed => (frame.nTargets <= 1 /\ hist.singleMs >= 0)
    /\ \A i \in BioFrames : BioAllowed(i) = 1 => frame.vitals_allowed

\* Tracking lost the resting subject two frames ago, 400 ms after its last
\* single-target frame the gate is still open.
C38_Witness ==
  /\ frame.processed /\ frame.vitals_allowed /\ frame.nTargets = 0
  /\ frame.s0 # -1 /\ frame.now - hist.singleMs = 2 * ClassDt
  /\ hist.humanRun >= ClassWarmup

(***************************************************************************)
(* SpecPace: the host changes the periods while a subject rests.  For      *)
(* PaceLoops loop()s, PaceDt ms apart, the host sends a period command or  *)
(* nothing and the radar delivers the resting subject or times out.        *)
(***************************************************************************)
PaceLoops == 4
PaceDt == 100

PaceLoop ==
  /\ booted
  /\ hist.loops < PaceLoops
  /\ \E h \in {NoTx} \cup { hostFrame(CMD_SET_BIO_MS, U16LE(v)) : v \in {50, 200} }
               \cup { hostFrame(CMD_SET_TARGETS_MS, U16LE(v)) : v \in {50, 400} } :
       \E polled \in {polledHost(h)} :
         \E r \in {RestingRadar, NoRadar} :
           loopAfterPoll(polled, h, r, PaceDt)

NextPace == setup \/ PaceLoop

SpecPace == Init /\ [][NextPace]_vars

\* The t_ms field of a telemetry frame.
FrameTms(fr) ==
  fr.payload[1] + fr.payload[2] * U8 + fr.payload[3] * U16 + fr.payload[4] * U16 * U8

\* C39 -- Minimum spacing: the t_ms of an EVT_BIO is at least BIO_MS, as
\* configured when it is written, later than the t_ms of the EVT_BIO before
\* it; likewise EVT_TARGETS and TARGETS_MS.
C39_MinimumSpacing ==
  frame.processed =>
    /\ \A i \in BioFrames :
         /\ FrameTms(out[i]) = frame.now - t0
         /\ frame.bioMs0 > 0 => FrameTms(out[i]) - (frame.bioMs0 - t0) >= BIO_MS
    /\ \A i \in TargetsFrames :
         /\ FrameTms(out[i]) = frame.now - t0
         /\ frame.targetsMs0 > 0 => FrameTms(out[i]) - (frame.targetsMs0 - t0) >= TARGETS_MS

\* An EVT_BIO follows the one before it after PaceDt ms, under the BIO_MS of
\* 50 that the SET_BIO_MS polled by this loop() asked for.
C39_Witness ==
  /\ frame.processed /\ BioFrames # {} /\ frame.bioMs0 > 0
  /\ frame.now - frame.bioMs0 = PaceDt
  /\ hostTx = hostFrame(CMD_SET_BIO_MS, U16LE(50)) /\ BIO_MS = 50
  /\ hist.loops = PaceLoops

====
